---- MODULE Spec2Model ----
(***************************************************************************)
(* Model of the diagnostics engine of the Unify VS Code extension          *)
(* (src/src/diagnostics/diagnostics.ts): path resolution, include cycle    *)
(* detection, template lookup and the analysis of one document.            *)
(*                                                                         *)
(* Paths are strings, as in the source; the operators below compute what   *)
(* Node's posix `path` module computes.  A file's text is a sequence of    *)
(* lines, a line is a sequence of the constructs the source's regular      *)
(* expressions recognise (include markers, template tags, slot tags).      *)
(***************************************************************************)
EXTENDS Integers, Sequences, FiniteSets, TLC

VARIABLES
    workspaceFolders,   \* vscode.workspace.workspaceFolders: sequence of root paths
    sourceDirectory,    \* configuration value unify.sourceDirectory
    fs,                 \* the file system: path of every regular file |-> its text
    unreadable,         \* regular files whose read fails (permission denied, I/O error)
    textDocuments,      \* vscode.workspace.textDocuments: paths of the open documents
    diagnostics,        \* context.diagnostics: document path |-> published findings
    trace,              \* observation of the latest analysis of each document
    definition,         \* request and answer of the latest go-to-definition
    hover,              \* request and answer of the latest hover on an extends reference
    completion,         \* request and answer of the latest slot-name completion
    outputChannel,      \* context.outputChannel: the line appended last
    updateTimeout,      \* UnifyDiagnostics.updateTimeout: document |-> its timer
    timers,             \* the runtime's pending timers of UnifyDiagnostics: [id, document]
    handled,            \* the event handled last and the analyses it started
    isActive,           \* context.isActive
    previewProvider,    \* context.previewProvider: 0 (undefined) or the instance's number
    features,           \* how often initializeUnifyFeatures has run
    pending,            \* the workspace checks that have not resolved yet
    panels,             \* UnifyPreviewProvider.panels: the documents with a visible panel
    previewTimeout,     \* UnifyPreviewProvider.updateTimeout: the document of its timer
    webview,            \* panel.webview.html: document |-> the text it was rendered from
    render              \* the fallback renderer's loop: content, lastIndex, findings

\* the state of the analysis and of go-to-definition
analysis == <<diagnostics, trace, definition>>

\* the workspace as the extension finds it
workspace == <<workspaceFolders, sourceDirectory, unreadable, textDocuments>>

\* the other language providers
providers == <<hover, completion>>

\* the debouncer of UnifyDiagnostics
debouncer == <<updateTimeout, timers>>

\* activation
activation == <<isActive, previewProvider, features, pending>>

\* the preview
preview == <<panels, previewTimeout, webview, render>>

vars == <<workspaceFolders, sourceDirectory, fs, unreadable, textDocuments,
          diagnostics, trace, definition, hover, completion, outputChannel,
          updateTimeout, timers, handled, isActive, previewProvider, features,
          pending, panels, previewTimeout, webview, render>>

(***************************************************************************)
(* Strings as character sequences                                          *)
(***************************************************************************)
CharAt(s, i) == SubSeq(s, i, i)

StartsWith(s, p) == Len(s) >= Len(p) /\ SubSeq(s, 1, Len(p)) = p

EndsWith(s, p) == Len(s) >= Len(p) /\ SubSeq(s, Len(s) - Len(p) + 1, Len(s)) = p

\* position of the last occurrence of character c in s, 0 when there is none
RECURSIVE LastIndexOfFrom(_, _, _)
LastIndexOfFrom(s, c, i) ==
    IF i = 0 THEN 0
    ELSE IF CharAt(s, i) = c THEN i
    ELSE LastIndexOfFrom(s, c, i - 1)

LastIndexOf(s, c) == LastIndexOfFrom(s, c, Len(s))

\* s.split('/')
RECURSIVE SplitFrom(_, _, _)
SplitFrom(s, start, i) ==
    IF i > Len(s) THEN <<SubSeq(s, start, Len(s))>>
    ELSE IF CharAt(s, i) = "/"
         THEN <<SubSeq(s, start, i - 1)>> \o SplitFrom(s, i + 1, i + 1)
         ELSE SplitFrom(s, start, i + 1)

Split(s) == SplitFrom(s, 1, 1)

\* segs.join(sep)
RECURSIVE JoinWith(_, _)
JoinWith(segs, sep) ==
    IF Len(segs) = 0 THEN ""
    ELSE IF Len(segs) = 1 THEN segs[1]
    ELSE segs[1] \o sep \o JoinWith(Tail(segs), sep)

JoinSegs(segs) == JoinWith(segs, "/")

\* s without its trailing '/' characters
RECURSIVE StripTrailingSlashes(_)
StripTrailingSlashes(s) ==
    IF Len(s) > 0 /\ CharAt(s, Len(s)) = "/"
    THEN StripTrailingSlashes(SubSeq(s, 1, Len(s) - 1))
    ELSE s

(***************************************************************************)
(* Node's posix path module                                                *)
(***************************************************************************)
IsAbsolute(p) == Len(p) > 0 /\ CharAt(p, 1) = "/"

\* normalizeString: drops "" and ".", resolves ".." against the segments kept
RECURSIVE NormalizeSegs(_, _, _)
NormalizeSegs(segs, acc, allowAboveRoot) ==
    IF Len(segs) = 0 THEN acc
    ELSE LET s == Head(segs)
             rest == Tail(segs)
         IN IF s = "" \/ s = "." THEN NormalizeSegs(rest, acc, allowAboveRoot)
            ELSE IF s = ".."
                 THEN IF Len(acc) > 0 /\ acc[Len(acc)] # ".."
                      THEN NormalizeSegs(rest, SubSeq(acc, 1, Len(acc) - 1), allowAboveRoot)
                      ELSE IF allowAboveRoot
                           THEN NormalizeSegs(rest, Append(acc, ".."), allowAboveRoot)
                           ELSE NormalizeSegs(rest, acc, allowAboveRoot)
                 ELSE NormalizeSegs(rest, Append(acc, s), allowAboveRoot)

\* path.normalize
Normalize(p) ==
    IF Len(p) = 0 THEN "."
    ELSE LET abs == IsAbsolute(p)
             trailing == CharAt(p, Len(p)) = "/"
             body == JoinSegs(NormalizeSegs(Split(p), <<>>, ~abs))
         IN IF Len(body) = 0
            THEN (IF abs THEN "/" ELSE IF trailing THEN "./" ELSE ".")
            ELSE (IF abs THEN "/" ELSE "") \o body \o (IF trailing THEN "/" ELSE "")

\* path.join(a, b, c): the non-empty arguments joined by '/', then normalized
JoinNonEmpty(args) == JoinSegs(SelectSeq(args, LAMBDA a : Len(a) > 0))

PathJoin(args) ==
    IF Len(JoinNonEmpty(args)) = 0 THEN "." ELSE Normalize(JoinNonEmpty(args))

\* path.resolve(from, to) for an absolute `from`: `to` wins when it is absolute
PathResolve(from, to) ==
    LET joined == IF IsAbsolute(to) THEN to
                  ELSE IF Len(to) = 0 THEN from
                  ELSE from \o "/" \o to
        abs == IsAbsolute(joined)
        body == JoinSegs(NormalizeSegs(Split(joined), <<>>, ~abs))
    IN IF abs THEN "/" \o body
       ELSE IF Len(body) = 0 THEN "." ELSE body

\* path.dirname
PathDirname(p) ==
    IF Len(p) = 0 THEN "."
    ELSE LET q == StripTrailingSlashes(p)
             k == LastIndexOf(q, "/")
         IN IF k <= 1 THEN (IF IsAbsolute(p) THEN "/" ELSE ".")
            ELSE IF k = 2 /\ IsAbsolute(p) THEN "//"
            ELSE SubSeq(q, 1, k - 1)

\* path.basename
PathBasename(p) ==
    LET q == StripTrailingSlashes(p)
        k == LastIndexOf(q, "/")
    IN SubSeq(q, k + 1, Len(q))

\* path.extname: from the last '.' of the base name; empty when there is no
\* '.', when the '.' is the first character, or when the base name is ".."
PathExtname(p) ==
    LET b == PathBasename(p)
        k == LastIndexOf(b, ".")
    IN IF k = 0 \/ k = 1 \/ b = ".." THEN "" ELSE SubSeq(b, k, Len(b))

(***************************************************************************)
(* The file system (fs.existsSync, fs.readFileSync)                        *)
(***************************************************************************)
\* a directory exists when some regular file lies below it
IsDirectory(p) ==
    \/ p = "/"
    \/ \E f \in DOMAIN fs : StartsWith(f, StripTrailingSlashes(p) \o "/")

\* fs.existsSync: true for regular files and for directories.  A path with a
\* trailing '/' names a directory only.  A relative path is looked up from
\* the process's working directory, which holds none of the modelled files.
ExistsSync(p) ==
    IF ~IsAbsolute(p) THEN FALSE
    ELSE IF p = "/" THEN TRUE
    ELSE IF CharAt(p, Len(p)) = "/" THEN IsDirectory(p)
    ELSE p \in DOMAIN fs \/ IsDirectory(p)

\* fs.readFileSync succeeds on readable regular files only (it throws on a
\* directory, on a missing path and on a file it may not read)
CanRead(p) == p \in DOMAIN fs /\ p \notin unreadable

(***************************************************************************)
(* Text: a sequence of lines, each a sequence of constructs                *)
(***************************************************************************)
\* <!--#include attr="path" -->
Include(attr, path) == [kind |-> "include", attr |-> attr, val |-> path, slot |-> ""]
\* <template extends="..." slot="...">, an absent attribute is ""
Template(extends, slot) == [kind |-> "template", attr |-> "", val |-> extends, slot |-> slot]
\* </template>
EndTemplate == [kind |-> "endtemplate", attr |-> "", val |-> "", slot |-> ""]
\* <slot name="...">
SlotDecl(name) == [kind |-> "slot", attr |-> "name", val |-> name, slot |-> ""]

\* text.split('\n') undone: all constructs of a text in document order
RECURSIVE Flatten(_)
Flatten(lines) ==
    IF Len(lines) = 0 THEN <<>> ELSE Head(lines) \o Flatten(Tail(lines))

\* /<!--#include\s+(virtual|file)="([^"]+)"\s*-->/
includeRegex(tok) ==
    tok.kind = "include" /\ tok.attr \in {"virtual", "file"} /\ Len(tok.val) > 0

Undefined == "<undefined>"

(***************************************************************************)
(* Workspace                                                               *)
(***************************************************************************)
FolderContains(root, file) == StartsWith(file, root \o "/")

\* vscode.workspace.getWorkspaceFolder(uri)?.uri.fsPath: the innermost
\* workspace folder that contains the file
getWorkspaceFolder(file) ==
    LET holders == {i \in 1..Len(workspaceFolders) : FolderContains(workspaceFolders[i], file)}
    IN IF holders = {} THEN Undefined
       ELSE workspaceFolders[CHOOSE i \in holders :
                \A j \in holders : Len(workspaceFolders[j]) <= Len(workspaceFolders[i])]

\* vscode.workspace.workspaceFolders?.[0]?.uri.fsPath || ''
firstWorkspaceFolder ==
    IF Len(workspaceFolders) = 0 THEN "" ELSE workspaceFolders[1]

(***************************************************************************)
(* Cycle detector                                                          *)
(***************************************************************************)
\* the path an include of `targetFile` is followed to during traversal
traversalNextPath(targetFile, type, includePath) ==
    IF type = "virtual"
    THEN PathJoin(<<firstWorkspaceFolder, sourceDirectory, includePath>>)
    ELSE PathResolve(PathDirname(targetFile), includePath)

\* a configured unify.sourceDirectory that is not a string (settings.json is
\* not type-checked at run time)
NotAString == "<not a string>"

\* path.join(workspaceRoot, sourceDir, ...) throws a TypeError for an argument
\* that is not a string; only virtual references are joined with sourceDir
joinThrows(type) == type = "virtual" /\ sourceDirectory = NotAString

RECURSIVE checkCircularIncludes(_, _, _)
RECURSIVE traverseIncludes(_, _, _, _, _)

\* a failed read of the target answered as a cycle
checkCircularIncludes_readErrorIsCircular(currentFile, targetFile, visited) ==
    LET call == <<[currentFile |-> currentFile, targetFile |-> targetFile,
                   visited |-> visited]>>
    IN IF currentFile \in visited \/ currentFile = targetFile \/ ~CanRead(targetFile)
       THEN [circular |-> TRUE, checks |-> call, edges |-> <<>>]
       ELSE traverseIncludes(currentFile, targetFile, visited \cup {currentFile},
                SelectSeq(Flatten(fs[targetFile]), includeRegex),
                [circular |-> FALSE, checks |-> call, edges |-> <<>>])

\* checkCircularIncludes as a walk that marks the files it has opened
checkCircularIncludes_markTarget(currentFile, targetFile, visited) ==
    LET call == <<[currentFile |-> currentFile, targetFile |-> targetFile,
                   visited |-> visited]>>
    IN IF targetFile \in visited
       THEN [circular |-> TRUE, checks |-> call, edges |-> <<>>]
       ELSE IF currentFile = targetFile
       THEN [circular |-> TRUE, checks |-> call, edges |-> <<>>]
       ELSE IF ~CanRead(targetFile)
       THEN [circular |-> FALSE, checks |-> call, edges |-> <<>>]
       ELSE traverseIncludes(currentFile, targetFile, visited \cup {targetFile},
                SelectSeq(Flatten(fs[targetFile]), includeRegex),
                [circular |-> FALSE, checks |-> call, edges |-> <<>>])

\* The result carries, besides the boolean the source returns, the calls made
\* (checks) and the include directives looked at (edges), in order.
checkCircularIncludes(currentFile, targetFile, visited) ==
    LET call == <<[currentFile |-> currentFile, targetFile |-> targetFile,
                   visited |-> visited]>>
    IN IF currentFile \in visited
       THEN [circular |-> TRUE, checks |-> call, edges |-> <<>>]
       ELSE IF currentFile = targetFile
       THEN [circular |-> TRUE, checks |-> call, edges |-> <<>>]
       ELSE IF ~CanRead(targetFile)
       THEN [circular |-> FALSE, checks |-> call, edges |-> <<>>]
       ELSE traverseIncludes(currentFile, targetFile, visited \cup {currentFile},
                SelectSeq(Flatten(fs[targetFile]), includeRegex),
                [circular |-> FALSE, checks |-> call, edges |-> <<>>])

\* traverseIncludes with the result of the recursive check dropped
traverseIncludes_ignoreResult(currentFile, targetFile, visited, matches, acc) ==
    IF Len(matches) = 0 THEN acc
    ELSE IF joinThrows(Head(matches).attr) THEN acc
    ELSE LET m == Head(matches)
             nextPath == traversalNextPath(targetFile, m.attr, m.val)
             follow == ExistsSync(nextPath)
             edge == [from |-> targetFile, type |-> m.attr, path |-> m.val,
                      nextPath |-> nextPath, followed |-> follow]
             sub == checkCircularIncludes(currentFile, nextPath, visited)
         IN traverseIncludes(currentFile, targetFile, visited, Tail(matches),
                [circular |-> FALSE,
                 checks |-> IF follow THEN acc.checks \o sub.checks ELSE acc.checks,
                 edges |-> IF follow THEN Append(acc.edges, edge) \o sub.edges
                           ELSE Append(acc.edges, edge)])

\* the while loop over the include directives of targetFile
traverseIncludes(currentFile, targetFile, visited, matches, acc) ==
    IF Len(matches) = 0 THEN acc
    ELSE IF joinThrows(Head(matches).attr) THEN acc
    ELSE LET m == Head(matches)
             nextPath == traversalNextPath(targetFile, m.attr, m.val)
             follow == ExistsSync(nextPath)
             edge == [from |-> targetFile, type |-> m.attr, path |-> m.val,
                      nextPath |-> nextPath, followed |-> follow]
         IN IF follow
            THEN LET sub == checkCircularIncludes(currentFile, nextPath, visited)
                     acc2 == [circular |-> sub.circular,
                              checks |-> acc.checks \o sub.checks,
                              edges |-> Append(acc.edges, edge) \o sub.edges]
                 IN IF sub.circular THEN acc2
                    ELSE traverseIncludes(currentFile, targetFile, visited, Tail(matches), acc2)
            ELSE traverseIncludes(currentFile, targetFile, visited, Tail(matches),
                     [acc EXCEPT !.edges = Append(acc.edges, edge)])

(***************************************************************************)
(* Path resolver                                                           *)
(***************************************************************************)
\* the extensions tried in another order
extensions_reordered == <<".md", ".htm", ".html">>

extensions == <<".html", ".htm", ".md">>

\* the base location of a reference of the analysed document
includeBasePath(fileName, type, includePath, workspaceRoot) ==
    IF type = "virtual"
    THEN PathJoin(<<workspaceRoot, sourceDirectory, includePath>>)
    ELSE PathResolve(PathDirname(fileName), includePath)

\* the loop over the extensions: the first path + ext that exists
RECURSIVE tryExtensions(_, _)
tryExtensions(resolvedPath, exts) ==
    IF Len(exts) = 0 THEN [exists |-> FALSE, finalPath |-> resolvedPath]
    ELSE IF ExistsSync(resolvedPath \o Head(exts))
         THEN [exists |-> TRUE, finalPath |-> resolvedPath \o Head(exts)]
         ELSE tryExtensions(resolvedPath, Tail(exts))

\* findExisting with the flag left set when no extension matches
findExisting_staleFlag(resolvedPath) ==
    IF ExistsSync(resolvedPath)
    THEN [exists |-> TRUE, finalPath |-> resolvedPath]
    ELSE LET r == tryExtensions(resolvedPath, extensions)
         IN [exists |-> TRUE,
             finalPath |-> IF r.exists THEN r.finalPath ELSE resolvedPath]

findExisting(resolvedPath) ==
    IF ExistsSync(resolvedPath)
    THEN [exists |-> TRUE, finalPath |-> resolvedPath]
    ELSE LET r == tryExtensions(resolvedPath, extensions)
         IN [exists |-> r.exists,
             finalPath |-> IF r.exists THEN r.finalPath ELSE resolvedPath]

\* resolveIncludePath with the cycle check run on missing locations too
resolveIncludePath_alwaysCheck(fileName, type, includePath, workspaceRoot) ==
    LET resolvedPath == includeBasePath(fileName, type, includePath, workspaceRoot)
        found == findExisting(resolvedPath)
        cyc == checkCircularIncludes(fileName, found.finalPath, {})
    IN [type |-> type, path |-> includePath, resolvedPath |-> resolvedPath,
        exists |-> found.exists, expectedPath |-> found.finalPath,
        circular |-> cyc.circular, checks |-> cyc.checks, edges |-> cyc.edges]

\* resolveIncludePath with the cycle check run on the path as written
resolveIncludePath_rawTarget(fileName, type, includePath, workspaceRoot) ==
    LET resolvedPath == includeBasePath(fileName, type, includePath, workspaceRoot)
        found == findExisting(resolvedPath)
        cyc == IF found.exists
               THEN checkCircularIncludes(fileName, resolvedPath, {})
               ELSE [circular |-> FALSE, checks |-> <<>>, edges |-> <<>>]
    IN [type |-> type, path |-> includePath, resolvedPath |-> resolvedPath,
        exists |-> found.exists, expectedPath |-> found.finalPath,
        circular |-> cyc.circular, checks |-> cyc.checks, edges |-> cyc.edges]

resolveIncludePath(fileName, type, includePath, workspaceRoot) ==
    LET resolvedPath == includeBasePath(fileName, type, includePath, workspaceRoot)
        found == findExisting(resolvedPath)
        cyc == IF found.exists
               THEN checkCircularIncludes(fileName, found.finalPath, {})
               ELSE [circular |-> FALSE, checks |-> <<>>, edges |-> <<>>]
    IN [type |-> type, path |-> includePath, resolvedPath |-> resolvedPath,
        exists |-> found.exists, expectedPath |-> found.finalPath,
        circular |-> cyc.circular, checks |-> cyc.checks, edges |-> cyc.edges]

(***************************************************************************)
(* Template lookup                                                         *)
(***************************************************************************)
\* `.html` is appended to a candidate that has no extension
withHtmlExtension(possiblePath) ==
    IF PathExtname(possiblePath) = "" THEN possiblePath \o ".html" ELSE possiblePath

\* the loop over possiblePaths: the first test path that exists
RECURSIVE firstExistingTemplate(_)
firstExistingTemplate(possiblePaths) ==
    IF Len(possiblePaths) = 0 THEN Undefined
    ELSE IF ExistsSync(withHtmlExtension(Head(possiblePaths)))
         THEN withHtmlExtension(Head(possiblePaths))
         ELSE firstExistingTemplate(Tail(possiblePaths))

\* the search locations with components tried before layouts
templatePossiblePaths_reordered(extendsPath, workspaceRoot) ==
    << PathJoin(<<workspaceRoot, sourceDirectory, "components", extendsPath>>),
       PathJoin(<<workspaceRoot, sourceDirectory, "layouts", extendsPath>>),
       PathJoin(<<workspaceRoot, sourceDirectory, extendsPath>>) >>

templatePossiblePaths(extendsPath, workspaceRoot) ==
    << PathJoin(<<workspaceRoot, sourceDirectory, "layouts", extendsPath>>),
       PathJoin(<<workspaceRoot, sourceDirectory, "components", extendsPath>>),
       PathJoin(<<workspaceRoot, sourceDirectory, extendsPath>>) >>

resolveTemplatePath(extendsPath, workspaceRoot) ==
    firstExistingTemplate(templatePossiblePaths(extendsPath, workspaceRoot))

\* /<template[^>]+extends=["']([^"']+)["'][^>]*>/
templateRegex(tok) == tok.kind = "template" /\ Len(tok.val) > 0

\* every template tag counts as a slot usage
slotRegex_anyTemplate(tok) == tok.kind = "template"

\* /<template[^>]+slot=["']([^"']+)["'][^>]*>/
slotRegex(tok) == tok.kind = "template" /\ Len(tok.slot) > 0

\* the parent taken from the last extends declaration instead of the first
findExtendedTemplate_lastDeclaration(fileName, lines) ==
    LET matches == SelectSeq(Flatten(lines), templateRegex)
        workspaceRoot == getWorkspaceFolder(fileName)
    IN IF Len(matches) > 0 /\ workspaceRoot # Undefined
       THEN resolveTemplatePath(matches[Len(matches)].val, workspaceRoot)
       ELSE Undefined

findExtendedTemplate(fileName, lines) ==
    LET matches == SelectSeq(Flatten(lines), templateRegex)
        workspaceRoot == getWorkspaceFolder(fileName)
    IN IF Len(matches) > 0 /\ workspaceRoot # Undefined
       THEN resolveTemplatePath(matches[1].val, workspaceRoot)
       ELSE Undefined

\* the names as pushed, duplicates kept
Dedup_keepAll(names, acc) == acc \o names

\* [...new Set(slots)]: each name once, in order of first occurrence
RECURSIVE Dedup(_, _)
Dedup(names, acc) ==
    IF Len(names) = 0 THEN acc
    ELSE IF \E k \in 1..Len(acc) : acc[k] = Head(names)
         THEN Dedup(Tail(names), acc)
         ELSE Dedup(Tail(names), Append(acc, Head(names)))

extractSlots(content) ==
    LET decls == SelectSeq(Flatten(content),
                           LAMBDA tok : tok.kind = "slot" /\ Len(tok.val) > 0)
    IN Dedup([k \in 1..Len(decls) |-> decls[k].val], <<>>)

(***************************************************************************)
(* Analysis of one document                                                *)
(***************************************************************************)
\* the constructs of line i (1-based) with their positions (0-based)
LineTokens(lines, i) ==
    [j \in 1..Len(lines[i]) |-> [line |-> i - 1, col |-> j - 1, tok |-> lines[i][j]]]

RECURSIVE Located(_, _)
Located(lines, i) ==
    IF i > Len(lines) THEN <<>> ELSE LineTokens(lines, i) \o Located(lines, i + 1)

RECURSIVE Concat(_)
Concat(seqs) == IF Len(seqs) = 0 THEN <<>> ELSE Head(seqs) \o Concat(Tail(seqs))

Diagnostic(code, severity, at, message, related) ==
    [code |-> code, severity |-> severity, line |-> at.line, col |-> at.col,
     message |-> message, related |-> related]

createIncludeFileSuggestion(expectedPath) ==
    IF ExistsSync(PathDirname(expectedPath))
    THEN "Create missing include file: " \o PathBasename(expectedPath)
    ELSE "Create directory and include file: " \o expectedPath

\* one resolution per include directive of the document, in document order
includeResolutions(fileName, lines) ==
    LET workspaceRoot == getWorkspaceFolder(fileName)
        incs == SelectSeq(Located(lines, 1), LAMBDA t : includeRegex(t.tok))
    IN IF workspaceRoot = Undefined THEN <<>>
       ELSE [k \in 1..Len(incs) |->
                [line |-> incs[k].line, col |-> incs[k].col,
                 res |-> resolveIncludePath(fileName, incs[k].tok.attr,
                                            incs[k].tok.val, workspaceRoot)]]

includeDiagnostic(r) ==
    IF ~r.res.exists
    THEN <<Diagnostic("include-not-found", "Error", r,
                      "Include file not found: " \o r.res.path,
                      createIncludeFileSuggestion(r.res.expectedPath))>>
    ELSE IF r.res.circular
    THEN <<Diagnostic("circular-include", "Error", r,
                      "Circular include dependency detected: " \o r.res.path, "")>>
    ELSE <<>>

analyzeIncludes(fileName, lines) ==
    LET rs == includeResolutions(fileName, lines)
    IN [diagnostics |-> Concat([k \in 1..Len(rs) |-> includeDiagnostic(rs[k])]),
        resolutions |-> rs]

\* one lookup per extends declaration of the document, in document order
templateResolutions(fileName, lines) ==
    LET workspaceRoot == getWorkspaceFolder(fileName)
        tpls == SelectSeq(Located(lines, 1), LAMBDA t : templateRegex(t.tok))
    IN IF workspaceRoot = Undefined THEN <<>>
       ELSE [k \in 1..Len(tpls) |->
                [line |-> tpls[k].line, col |-> tpls[k].col,
                 extendsPath |-> tpls[k].tok.val,
                 templatePath |-> resolveTemplatePath(tpls[k].tok.val, workspaceRoot)]]

analyzeTemplates(fileName, lines) ==
    LET rs == templateResolutions(fileName, lines)
    IN [diagnostics |->
            Concat([k \in 1..Len(rs) |->
                 IF rs[k].templatePath = Undefined
                 THEN <<Diagnostic("template-not-found", "Error", rs[k],
                                   "Template not found: " \o rs[k].extendsPath, "")>>
                 ELSE <<>>]),
        resolutions |-> rs]

analyzeSlots(fileName, lines) ==
    LET extendedTemplate == findExtendedTemplate(fileName, lines)
    IN IF extendedTemplate = Undefined \/ ~CanRead(extendedTemplate) THEN <<>>
       ELSE LET availableSlots == extractSlots(fs[extendedTemplate])
                uses == SelectSeq(Located(lines, 1), LAMBDA t : slotRegex(t.tok))
            IN Concat([k \in 1..Len(uses) |->
                 IF \E n \in 1..Len(availableSlots) : availableSlots[n] = uses[k].tok.slot
                 THEN <<>>
                 ELSE <<Diagnostic("undefined-slot", "Warning", uses[k],
                          "Slot '" \o uses[k].tok.slot \o "' is not defined in the extended template",
                          IF Len(availableSlots) > 0
                          THEN "Available slots: " \o JoinWith(availableSlots, ", ")
                          ELSE "")>>])

\* /<!--#include\s+(?!virtual=|file=)/
malformedInclude(tok) == tok.kind = "include" /\ tok.attr \notin {"virtual", "file"}

\* one of the characters < > | * ? occurs in s
HasInvalidChar(s) == \E i \in 1..Len(s) : CharAt(s, i) \in {"<", ">", "|", "*", "?"}

\* /<!--#include\s+(virtual|file)="([^"]*[<>|*?]+[^"]*)"/
includeWithInvalidChars(tok) ==
    tok.kind = "include" /\ tok.attr \in {"virtual", "file"} /\ HasInvalidChar(tok.val)

\* regex.exec(line) once: the first construct of the line that matches
FirstMatch(toks, hits) ==
    IF hits = {} THEN <<>>
    ELSE <<toks[CHOOSE j \in hits : \A h \in hits : j <= h]>>

\* every opening matches, closed on its line or not
openTemplate_noLookahead(toks, j) == toks[j].tok.kind = "template"

\* /<template[^>]*>(?!.*<\/template>)/ : no </template> later on the line
openTemplate(toks, j) ==
    /\ toks[j].tok.kind = "template"
    /\ \A k \in (j + 1)..Len(toks) : toks[k].tok.kind # "endtemplate"

analyzeSyntaxLine(toks) ==
    LET m1 == FirstMatch(toks, {j \in 1..Len(toks) : malformedInclude(toks[j].tok)})
        m2 == FirstMatch(toks, {j \in 1..Len(toks) : openTemplate(toks, j)})
        m3 == FirstMatch(toks, {j \in 1..Len(toks) : includeWithInvalidChars(toks[j].tok)})
    IN  (IF Len(m1) > 0
         THEN <<Diagnostic("malformed-include", "Error", m1[1],
                  "Malformed include directive. Use virtual=\"path\" or file=\"path\"", "")>>
         ELSE <<>>)
     \o (IF Len(m2) > 0
         THEN <<Diagnostic("unclosed-template", "Information", m2[1],
                  "Template tag may not be properly closed", "")>>
         ELSE <<>>)
     \o (IF Len(m3) > 0
         THEN <<Diagnostic("invalid-path-chars", "Error", m3[1],
                  "Include path contains invalid characters", "")>>
         ELSE <<>>)

analyzeSyntax(lines) ==
    Concat([i \in 1..Len(lines) |-> analyzeSyntaxLine(LineTokens(lines, i))])

\* the syntax findings pushed before those of the other stages
analyzeDocument_syntaxFirst(fileName, lines) ==
    LET includeIssues == analyzeIncludes(fileName, lines)
        templateIssues == analyzeTemplates(fileName, lines)
    IN [diagnostics |-> analyzeSyntax(lines) \o includeIssues.diagnostics
                          \o templateIssues.diagnostics \o analyzeSlots(fileName, lines),
        includes |-> includeIssues.resolutions,
        templates |-> templateIssues.resolutions]

\* The findings of the four stages in the order they are pushed, with the
\* resolutions made on the way.
analyzeDocument(fileName, lines) ==
    LET includeIssues == analyzeIncludes(fileName, lines)
        templateIssues == analyzeTemplates(fileName, lines)
    IN [diagnostics |-> includeIssues.diagnostics \o templateIssues.diagnostics
                          \o analyzeSlots(fileName, lines) \o analyzeSyntax(lines),
        includes |-> includeIssues.resolutions,
        templates |-> templateIssues.resolutions]

\* The analysis ends with an exception: resolveIncludePath joins sourceDir
\* for a virtual include of the document, resolveTemplatePath for every
\* extends declaration (both outside any try block).
analysisThrows(fileName, lines) ==
    /\ getWorkspaceFolder(fileName) # Undefined
    /\ sourceDirectory = NotAString
    /\ \E k \in 1..Len(Flatten(lines)) :
          \/ includeRegex(Flatten(lines)[k]) /\ Flatten(lines)[k].attr = "virtual"
          \/ templateRegex(Flatten(lines)[k])

\* the line logged by the catch block
failedLine ==
    "Failed to update diagnostics: The \"path\" argument must be of type string."

\* document.languageId === 'html'
IsHtmlDocument(fileName) == PathExtname(fileName) \in {".html", ".htm"}

\* the line logged after a successful update
updatedLine(document, found) ==
    "Updated diagnostics for " \o document \o ": " \o ToString(Len(found))
        \o " issues found"

\* m with key k set to v
Put(m, k, v) == [x \in DOMAIN m \cup {k} |-> IF x = k THEN v ELSE m[x]]

\* the new findings added to those already published for the document
updateDiagnostics_accumulate(document) ==
    /\ document \in textDocuments
    /\ document \in DOMAIN fs
    /\ IsHtmlDocument(document)
    /\ IF analysisThrows(document, fs[document])
       THEN /\ outputChannel' = failedLine
            /\ UNCHANGED <<diagnostics, trace>>
       ELSE \E report \in {analyzeDocument(document, fs[document])} :
              /\ diagnostics' = Put(diagnostics, document,
                                    (IF document \in DOMAIN diagnostics
                                     THEN diagnostics[document] ELSE <<>>)
                                    \o report.diagnostics)
              /\ trace' = Put(trace, document,
                              [includes |-> report.includes, templates |-> report.templates])
              /\ outputChannel' = updatedLine(document, report.diagnostics)

\* updateDiagnostics(document) for an open html document: the analysis,
\* context.diagnostics.set(document.uri, diagnostics) and the line logged.
\* The method writes diagnostics, trace and outputChannel; its callers say
\* what else stays as it is.
updateDiagnostics_clearOnFailure(document) ==
    /\ document \in textDocuments
    /\ document \in DOMAIN fs
    /\ IsHtmlDocument(document)
    /\ IF analysisThrows(document, fs[document])
       THEN /\ outputChannel' = failedLine
            /\ diagnostics' = Put(diagnostics, document, <<>>)
            /\ UNCHANGED trace
       ELSE \E report \in {analyzeDocument(document, fs[document])} :
              /\ diagnostics' = Put(diagnostics, document, report.diagnostics)
              /\ trace' = Put(trace, document, [includes |-> report.includes, templates |-> report.templates])
              /\ outputChannel' = updatedLine(document, report.diagnostics)

updateDiagnostics(document) ==
    /\ document \in textDocuments
    /\ document \in DOMAIN fs
    /\ IsHtmlDocument(document)
    /\ IF analysisThrows(document, fs[document])
       THEN /\ outputChannel' = failedLine
            /\ UNCHANGED <<diagnostics, trace>>
       ELSE \E report \in {analyzeDocument(document, fs[document])} :
              /\ diagnostics' = Put(diagnostics, document, report.diagnostics)
              /\ trace' = Put(trace, document,
                              [includes |-> report.includes, templates |-> report.templates])
              /\ outputChannel' = updatedLine(document, report.diagnostics)

(***************************************************************************)
(* Go to definition (src/src/providers/definitionProvider.ts)              *)
(***************************************************************************)
Location(file, line, col) == [uri |-> file, line |-> line, col |-> col]

resolveIncludeDefinition(fileName, type, includePath) ==
    LET workspaceRoot == getWorkspaceFolder(fileName)
        resolvedPath == IF type = "virtual"
                        THEN PathJoin(<<workspaceRoot, sourceDirectory, includePath>>)
                        ELSE PathResolve(PathDirname(fileName), includePath)
        withExt == tryExtensions(resolvedPath, <<".html", ".htm", ".md">>)
    IN IF workspaceRoot = Undefined THEN <<>>
       ELSE IF ExistsSync(resolvedPath) THEN <<Location(resolvedPath, 0, 0)>>
       ELSE IF withExt.exists THEN <<Location(withExt.finalPath, 0, 0)>>
       ELSE <<>>

resolveTemplateDefinition(fileName, extendsPath) ==
    LET workspaceRoot == getWorkspaceFolder(fileName)
        found == firstExistingTemplate(
                    templatePossiblePaths(extendsPath, workspaceRoot)
                    \o <<PathResolve(PathDirname(fileName), extendsPath)>>)
    IN IF workspaceRoot = Undefined \/ found = Undefined THEN <<>>
       ELSE <<Location(found, 0, 0)>>

\* the <slot name=...> declarations and <template slot=...> usages of a name
findSlotDefinitionsInDocument(file, lines, slotName) ==
    LET hits == SelectSeq(Located(lines, 1),
                   LAMBDA t : \/ t.tok.kind = "slot" /\ t.tok.val = slotName
                              \/ t.tok.kind = "template" /\ t.tok.slot = slotName)
    IN [k \in 1..Len(hits) |-> Location(file, hits[k].line, hits[k].col)]

\* openTextDocument rejects for a path that is not a regular file; the
\* rejection leaves provideDefinition as the answer "rejected"
resolveSlotDefinition(fileName, lines, slotName) ==
    LET here == findSlotDefinitionsInDocument(fileName, lines, slotName)
        matches == SelectSeq(Flatten(lines), templateRegex)
        parent == IF Len(matches) = 0 THEN <<>>
                  ELSE resolveTemplateDefinition(fileName, matches[1].val)
    IN IF Len(parent) = 0 THEN here
       ELSE IF ~CanRead(parent[1].uri) THEN "rejected"
       ELSE here \o findSlotDefinitionsInDocument(parent[1].uri, fs[parent[1].uri], slotName)

\* the line the resolution appends to the output channel, "" for none
definitionLine(fileName, tok, answer) ==
    LET workspaceRoot == getWorkspaceFolder(fileName)
        matches == SelectSeq(Flatten(fs[fileName]), templateRegex)
    IN IF workspaceRoot = Undefined THEN ""
       ELSE IF includeRegex(tok)
       THEN IF answer = <<>>
            THEN "Include file not found: " \o
                 (IF tok.attr = "virtual"
                  THEN PathJoin(<<workspaceRoot, sourceDirectory, tok.val>>)
                  ELSE PathResolve(PathDirname(fileName), tok.val))
            ELSE ""
       ELSE IF templateRegex(tok)
       THEN IF answer = <<>> THEN "Template file not found: " \o tok.val ELSE ""
       ELSE IF tok.kind = "slot" /\ Len(tok.val) > 0 /\ Len(matches) > 0
               /\ resolveTemplateDefinition(fileName, matches[1].val) = <<>>
       THEN "Template file not found: " \o matches[1].val
       ELSE ""

\* provideDefinition(document, position, token) with the cursor on the value
\* of the construct at (line, col); token is what the caller's cancellation
\* token reads while the request runs
provideDefinition(document, line, col, token) ==
    /\ document \in textDocuments
    /\ document \in DOMAIN fs
    /\ IsHtmlDocument(document)
    /\ line \in 1..Len(fs[document])
    /\ col \in 1..Len(fs[document][line])
    /\ LET tok == fs[document][line][col]
           answer == IF includeRegex(tok)
                     THEN resolveIncludeDefinition(document, tok.attr, tok.val)
                     ELSE IF templateRegex(tok)
                     THEN resolveTemplateDefinition(document, tok.val)
                     ELSE IF tok.kind = "slot" /\ Len(tok.val) > 0
                     THEN resolveSlotDefinition(document, fs[document], tok.val)
                     ELSE <<>>
           line_ == definitionLine(document, tok, answer)
       IN /\ definition' = [document |-> document, line |-> line - 1, col |-> col - 1,
                            token |-> token, answer |-> answer]
          /\ outputChannel' = IF line_ = "" THEN outputChannel ELSE line_

(***************************************************************************)
(* Bounded inputs                                                          *)
(***************************************************************************)
MaxDirectives == 4      \* include directives in the whole file system
MaxFiles == 2           \* files beside the analysed document
MaxChain == 52          \* files of an include chain

\* a text with one construct per line
OnePerLine(toks) == [k \in 1..Len(toks) |-> <<toks[k]>>]

NoDefinition ==
    [document |-> Undefined, line |-> 0, col |-> 0, token |-> "live", answer |-> <<>>]

\* no hover or completion request yet
NoRequest == [document |-> Undefined, parent |-> Undefined]

\* no event handled yet
NoEvent == [event |-> "activate", document |-> Undefined, analyses |-> 0,
            outcome |-> "none"]

\* the renderer at rest
NoRender == [document |-> Undefined, content |-> <<>>, lastIndex |-> 0,
             diagnostics |-> <<>>, running |-> FALSE, seen |-> {}]

\* The extension after activation in a Unify workspace: the initial check has
\* resolved, the features are initialized once, nothing is scheduled and no
\* preview is open.
Activated ==
    /\ hover = NoRequest
    /\ completion = NoRequest
    /\ outputChannel = "Initializing Unify features"
    /\ updateTimeout = <<>>
    /\ timers = {}
    /\ handled = NoEvent
    /\ isActive = TRUE
    /\ previewProvider = 1
    /\ features = 1
    /\ pending = <<>>
    /\ panels = {}
    /\ previewTimeout = Undefined
    /\ webview = <<>>
    /\ render = NoRender

SrcFile(n) == "/ws/src/" \o n \o ".html"

\* the texts of exactly k lines, each one relative include of a file in names
IncludeTexts(names, k) ==
    {OnePerLine(t) : t \in [1..k -> {Include("file", n \o ".html") : n \in names}]}

\* The file systems over the files SrcFile(n), n in names: every file is
\* absent or holds includes of the files in targets[n]; at most `budget`
\* include directives in all.
RECURSIVE IncludeFileSystems(_, _, _)
IncludeFileSystems(names, targets, budget) ==
    IF names = {} THEN {<<>>}
    ELSE LET n == CHOOSE m \in names : TRUE
         IN IncludeFileSystems(names \ {n}, targets, budget)
            \cup UNION { { Put(f, SrcFile(n), t) :
                             f \in IncludeFileSystems(names \ {n}, targets, budget - k),
                             t \in IncludeTexts(targets[n], k) }
                         : k \in 0..budget }

\* Include graphs over a.html, b.html, c.html of one source directory: every
\* file is absent or holds relative includes of any of the three.
GraphNames == {"a", "b", "c"}

GraphFileSystems ==
    IncludeFileSystems(GraphNames, [n \in GraphNames |-> GraphNames], MaxDirectives)

InitGraph ==
    /\ workspaceFolders = <<"/ws">>
    /\ sourceDirectory = "src"
    /\ fs \in GraphFileSystems
    /\ textDocuments = {SrcFile("a"), SrcFile("b")} \cap DOMAIN fs
    /\ diagnostics = <<>>
    /\ trace = <<>>
    /\ definition = NoDefinition
    /\ Activated
    /\ unreadable = {}

\* Acyclic include graphs over a.html .. d.html: a file includes only files
\* that come later in the alphabet.
DagNames == {"a", "b", "c", "d"}

DagFileSystems ==
    IncludeFileSystems(DagNames,
        [n \in DagNames |-> CASE n = "a" -> {"b", "c", "d"}
                              [] n = "b" -> {"c", "d"}
                              [] n = "c" -> {"d"}
                              [] n = "d" -> {}],
        MaxDirectives)

InitDag ==
    /\ workspaceFolders = <<"/ws">>
    /\ sourceDirectory = "src"
    /\ fs \in DagFileSystems
    /\ textDocuments = {SrcFile("a")} \cap DOMAIN fs
    /\ diagnostics = <<>>
    /\ trace = <<>>
    /\ definition = NoDefinition
    /\ Activated
    /\ unreadable = {}

\* Include chains f0 -> f1 -> ... -> fn, n <= MaxChain
ChainFile(i) == "/ws/src/f" \o ToString(i) \o ".html"

ChainFileSystem(n) ==
    [p \in {ChainFile(i) : i \in 0..n} |->
        LET i == CHOOSE j \in 0..n : ChainFile(j) = p
        IN IF i = n THEN <<>>
           ELSE <<  <<Include("file", "f" \o ToString(i + 1) \o ".html")>>  >>]

InitChain ==
    /\ workspaceFolders = <<"/ws">>
    /\ sourceDirectory = "src"
    /\ fs \in {ChainFileSystem(n) : n \in 1..MaxChain}
    /\ textDocuments = {ChainFile(0)}
    /\ diagnostics = <<>>
    /\ trace = <<>>
    /\ definition = NoDefinition
    /\ Activated
    /\ unreadable = {}

\* a document with its text and up to MaxFiles of the entries <<path, text>>
\* (no path twice)
WithFiles(doc, docText, entries) ==
    { [p \in {doc} \cup {e[1] : e \in E} |->
          IF p = doc THEN docText ELSE (CHOOSE e \in E : e[1] = p)[2]]
      : E \in {E \in SUBSET entries :
                 /\ Cardinality(E) <= MaxFiles
                 /\ Cardinality({e[1] : e \in E}) = Cardinality(E)} }

\* Resolver inputs: a.html with one include directive beside files named like
\* the candidates of its reference
ResolveRaws == {"a", "a.html", "b", "./b.md", "."}
ResolveTexts == {<<>>, <<  <<Include("file", "a")>>  >>, <<  <<Include("virtual", "a.html")>>  >>}
ResolveEntries ==
    {"/ws/src/a", "/ws/src/b", "/ws/src/b.html", "/ws/src/b.htm", "/ws/src/b.md"}
        \X ResolveTexts

InitResolve ==
    /\ workspaceFolders = <<"/ws">>
    /\ sourceDirectory = "src"
    /\ \E type \in {"virtual", "file"}, raw \in ResolveRaws :
          fs \in WithFiles(SrcFile("a"), << <<Include(type, raw)>> >>, ResolveEntries)
    /\ textDocuments = {SrcFile("a")}
    /\ diagnostics = <<>>
    /\ trace = <<>>
    /\ definition = NoDefinition
    /\ Activated
    /\ unreadable = {}

\* Workspaces with one or two folders: a document of the folder /ws2 with one
\* include directive, beside files b.html and c.html in the places a rooted or
\* a relative reference can lead to
RootsFolders == {<<"/ws">>, <<"/ws", "/ws2">>, <<"/ws2", "/ws">>}
RootsDocument == "/ws2/src/pages/a.html"
RootsEntries ==
    ({"/ws2/src/b.html", "/ws2/src/pages/b.html", "/ws2/site/b.html", "/ws/src/b.html"}
        \X {<<>>, <<  <<Include("virtual", "c.html")>>  >>, <<  <<Include("file", "c.html")>>  >>})
    \cup ({"/ws/src/c.html", "/ws2/src/c.html", "/ws2/src/pages/c.html"} \X {<<>>})

InitRoots ==
    /\ workspaceFolders \in RootsFolders
    /\ sourceDirectory \in {"src", "site"}
    /\ \E type \in {"virtual", "file"}, raw \in {"b.html", "../b.html"} :
          fs \in WithFiles(RootsDocument, << <<Include(type, raw)>> >>, RootsEntries)
    /\ textDocuments = {RootsDocument}
    /\ diagnostics = <<>>
    /\ trace = <<>>
    /\ definition = NoDefinition
    /\ Activated
    /\ unreadable = {}

\* A document with one extends declaration beside files in the places a
\* parent can be looked up
TemplateDocument == "/ws/src/pages/a.html"
TemplateRefs == {"base", "base.html", "base.md", "sub/base"}
TemplateEntries ==
    {"/ws/src/layouts/base.html", "/ws/src/components/base.html", "/ws/src/base.html",
     "/ws/src/layouts/base", "/ws/src/components/base.md", "/ws/src/base.md",
     "/ws/src/components/sub/base.html", "/ws/src/pages/base.html",
     "/ws/site/layouts/base.html", "/ws/site/base.html"} \X {<<>>}

InitTemplate ==
    /\ workspaceFolders = <<"/ws">>
    /\ sourceDirectory \in {"src", "site"}
    /\ \E ref \in TemplateRefs :
          fs \in WithFiles(TemplateDocument, << <<Template(ref, ""), EndTemplate>> >>,
                           TemplateEntries)
    /\ textDocuments = {TemplateDocument}
    /\ diagnostics = <<>>
    /\ trace = <<>>
    /\ definition = NoDefinition
    /\ Activated
    /\ unreadable = {}

Init == InitGraph

\* updateDiagnostics is called for an open document
UpdateDiagnostics ==
    /\ \E document \in textDocuments : updateDiagnostics(document)
    /\ UNCHANGED <<workspace, fs, definition, providers, debouncer, handled,
                   activation, preview>>

\* what a cancellation token reads
Tokens == {"live", "cancelled"}

ProvideDefinition ==
    /\ \E document \in textDocuments :
          \E line \in 1..Len(fs[document]) :
              \E col \in 1..Len(fs[document][line]) :
                  \E token \in Tokens :
                      provideDefinition(document, line, col, token)
    /\ UNCHANGED <<workspace, fs, diagnostics, trace, providers, debouncer, handled,
                   activation, preview>>

Next == UpdateDiagnostics

Spec == Init /\ [][Next]_vars

\* acyclic include graphs and chains
InitAcyclic == InitDag \/ InitChain

SpecAcyclic == InitAcyclic /\ [][Next]_vars

\* resolver inputs, with diagnostics and go-to-definition as consumers
NextResolve == UpdateDiagnostics \/ ProvideDefinition

SpecResolve == InitResolve /\ [][NextResolve]_vars

\* workspaces with several folders
SpecRoots == InitRoots /\ [][NextResolve]_vars

\* template lookup
SpecTemplate == InitTemplate /\ [][NextResolve]_vars

(***************************************************************************)
(* Vocabulary of the properties                                            *)
(***************************************************************************)
\* Path Resolver as specified: base, candidates in order, first existing one
SpecBase(file, type, raw, root) ==
    IF type = "virtual" THEN PathJoin(<<root, sourceDirectory, raw>>)
    ELSE PathResolve(PathDirname(file), raw)

SpecCandidates(base) == <<base, base \o ".html", base \o ".htm", base \o ".md">>

SpecExistingPath(cands) ==
    LET hits == {k \in 1..Len(cands) : ExistsSync(cands[k])}
    IN IF hits = {} THEN Undefined
       ELSE cands[CHOOSE k \in hits : \A h \in hits : k <= h]

\* the include directives of a file with the file each resolves to
IncludeEdges(file) ==
    LET incs == SelectSeq(Located(fs[file], 1), LAMBDA t : includeRegex(t.tok))
    IN [k \in 1..Len(incs) |->
          [line |-> incs[k].line, col |-> incs[k].col,
           target |-> SpecExistingPath(SpecCandidates(
                         SpecBase(file, incs[k].tok.attr, incs[k].tok.val,
                                  getWorkspaceFolder(file))))]]

\* the files the include directives of a file resolve to, in order
Targets(file) ==
    LET es == IncludeEdges(file) IN [k \in 1..Len(es) |-> es[k].target]

\* positions of the findings of a kind published for a document
FindingsAt(document, code) ==
    {<<diagnostics[document][k].line, diagnostics[document][k].col>> :
        k \in {i \in 1..Len(diagnostics[document]) : diagnostics[document][i].code = code}}

CountFindings(document, code) ==
    Cardinality({i \in 1..Len(diagnostics[document]) : diagnostics[document][i].code = code})

(***************************************************************************)
(* C1  Diamond                                                             *)
(***************************************************************************)
\* files A, B, C, D form a diamond: A includes B and C, B and C include D,
\* D includes nothing
IsDiamond(A, B, C, D) ==
    /\ Cardinality({A, B, C, D}) = 4
    /\ {A, B, C, D} \subseteq DOMAIN fs
    /\ Targets(A) = <<B, C>>
    /\ Targets(B) = <<D>>
    /\ Targets(C) = <<D>>
    /\ Targets(D) = <<>>

\* C1: when A includes B and C, B and C each include D, D includes nothing and
\* all four exist, the analysis of A publishes no circular-include finding.
C1_DiamondNoCircularInclude ==
    \A A \in DOMAIN diagnostics :
        (\E B, C, D \in DOMAIN fs : IsDiamond(A, B, C, D))
            => FindingsAt(A, "circular-include") = {}

(***************************************************************************)
(* C2  Two-file cycle                                                      *)
(***************************************************************************)
IsTwoFileCycle(A, B) ==
    /\ A # B
    /\ {A, B} \subseteq DOMAIN fs
    /\ Targets(A) = <<B>>
    /\ Targets(B) = <<A>>

\* C2: when A includes B and B includes A, an analysis of A publishes exactly
\* one circular-include finding, at A's include directive, whatever was
\* analysed before (B's own analysis finds the same at B's directive).
C2_TwoFileCycle ==
    \A A \in DOMAIN diagnostics : \A B \in DOMAIN fs :
        IsTwoFileCycle(A, B)
            => /\ CountFindings(A, "circular-include") = 1
               /\ FindingsAt(A, "circular-include")
                    = {<<IncludeEdges(A)[1].line, IncludeEdges(A)[1].col>>}

\* both files of a two-file cycle have been analysed, each with its finding
C2_Witness ==
    \E A, B \in DOMAIN diagnostics :
        /\ IsTwoFileCycle(A, B)
        /\ CountFindings(A, "circular-include") = 1
        /\ CountFindings(B, "circular-include") = 1

(***************************************************************************)
(* C4  Missing is never circular                                           *)
(***************************************************************************)
\* C4: the cycle check runs only for directives whose location exists and is
\* called only on existing targets; a directive without existing candidate
\* gets an include-not-found finding and no circular-include finding, and no
\* directive gets both.
C4_MissingNeverCircular ==
    \A d \in DOMAIN diagnostics :
        /\ \A k \in 1..Len(trace[d].includes) :
             LET r == trace[d].includes[k]
                 noCandidate == \A c \in 1..4 :
                     ~ExistsSync(SpecCandidates(r.res.resolvedPath)[c])
             IN /\ Len(r.res.checks) > 0 => ~noCandidate
                /\ \A c \in 1..Len(r.res.checks) : ExistsSync(r.res.checks[c].targetFile)
                /\ \A e \in 1..Len(r.res.edges) :
                      r.res.edges[e].followed => ExistsSync(r.res.edges[e].nextPath)
                /\ noCandidate => /\ <<r.line, r.col>> \in FindingsAt(d, "include-not-found")
                                  /\ <<r.line, r.col>> \notin FindingsAt(d, "circular-include")
        /\ FindingsAt(d, "include-not-found") \cap FindingsAt(d, "circular-include") = {}

\* an analysed document has a missing include beside an include whose
\* traversal met an edge to a missing file
C4_Witness ==
    \E d \in DOMAIN diagnostics :
        /\ FindingsAt(d, "include-not-found") # {}
        /\ \E k \in 1..Len(trace[d].includes) :
             /\ trace[d].includes[k].res.exists
             /\ \E e \in 1..Len(trace[d].includes[k].res.edges) :
                  ~trace[d].includes[k].res.edges[e].followed

(***************************************************************************)
(* C3  Self-loop                                                           *)
(***************************************************************************)
\* C3: a document whose only include directive resolves to the document
\* itself gets a circular-include finding at that directive.
C3_SelfLoop ==
    \A d \in DOMAIN diagnostics :
        Targets(d) = <<d>>
            => <<IncludeEdges(d)[1].line, IncludeEdges(d)[1].col>>
                   \in FindingsAt(d, "circular-include")

\* a self-include written without the extension has been analysed and found
C3_Witness ==
    \E d \in DOMAIN diagnostics :
        /\ Targets(d) = <<d>>
        /\ trace[d].includes[1].res.resolvedPath # d
        /\ FindingsAt(d, "circular-include") # {}

(***************************************************************************)
(* C5  Traversal follows the resolved file                                 *)
(***************************************************************************)
\* the file the Path Resolver gives for an include directive of file `from`
\* met during the analysis of document d
ResolverTarget(d, from, type, raw) ==
    SpecExistingPath(SpecCandidates(SpecBase(from, type, raw, getWorkspaceFolder(d))))

\* C5: every include edge met during cycle traversal leads to the file the
\* Path Resolver resolves for the directive, so a two-file cycle whose
\* references are written without extension is reported as circular-include.
C5_TraversalFollowsResolver ==
    \A d \in DOMAIN diagnostics :
        /\ \A k \in 1..Len(trace[d].includes) :
             \A e \in 1..Len(trace[d].includes[k].res.edges) :
                LET edge == trace[d].includes[k].res.edges[e]
                    target == ResolverTarget(d, edge.from, edge.type, edge.path)
                IN /\ edge.followed <=> target # Undefined
                   /\ edge.followed => edge.nextPath = target
        /\ \A B \in DOMAIN fs :
             IsTwoFileCycle(d, B)
                => <<IncludeEdges(d)[1].line, IncludeEdges(d)[1].col>>
                       \in FindingsAt(d, "circular-include")

(***************************************************************************)
(* C6  Depth bound                                                         *)
(***************************************************************************)
Max(S) == CHOOSE x \in S : \A y \in S : y <= x

\* number of include edges on the longest path from a file (acyclic graphs)
RECURSIVE Depth(_)
Depth(file) ==
    LET ts == {Targets(file)[k] : k \in 1..Len(Targets(file))} \cap DOMAIN fs
    IN IF ts = {} THEN 0 ELSE 1 + Max({Depth(t) : t \in ts})

\* C6: the analysis of a document that heads an acyclic include chain deeper
\* than 50 publishes a resolution-too-deep finding and no circular-include
\* finding.
C6_DeepChainTooDeep ==
    \A d \in DOMAIN diagnostics :
        Depth(d) > 50
            => /\ FindingsAt(d, "resolution-too-deep") # {}
               /\ FindingsAt(d, "circular-include") = {}

(***************************************************************************)
(* C7, C8  Candidate order                                                 *)
(***************************************************************************)
\* the answer of go-to-definition names the include directive r of d
AnswersFor(d, r) ==
    definition.document = d /\ definition.line = r.line /\ definition.col = r.col

\* C7: the resolved path of an include directive is the first existing one
\* among raw, raw.html, raw.htm, raw.md, for diagnostics and go-to-definition:
\* raw wins when it exists, .html wins over .md when raw does not.
C7_FirstExistingCandidate ==
    \A d \in DOMAIN diagnostics : \A k \in 1..Len(trace[d].includes) :
        LET r == trace[d].includes[k]
            base == SpecBase(d, r.res.type, r.res.path, getWorkspaceFolder(d))
            first == SpecExistingPath(SpecCandidates(base))
        IN first # Undefined
            => /\ r.res.exists /\ r.res.expectedPath = first
               /\ ExistsSync(base) => r.res.expectedPath = base
               /\ (~ExistsSync(base) /\ ExistsSync(base \o ".html") /\ ExistsSync(base \o ".md"))
                     => EndsWith(r.res.expectedPath, ".html")
               /\ AnswersFor(d, r) => definition.answer = <<Location(first, 0, 0)>>

\* raw.html and raw.md exist, raw does not, and both consumers answered .html
C7_Witness ==
    \E d \in DOMAIN diagnostics : \E k \in 1..Len(trace[d].includes) :
        LET r == trace[d].includes[k]
        IN /\ ~ExistsSync(r.res.resolvedPath)
           /\ ExistsSync(r.res.resolvedPath \o ".html")
           /\ ExistsSync(r.res.resolvedPath \o ".md")
           /\ EndsWith(r.res.expectedPath, ".html")
           /\ AnswersFor(d, r)
           /\ definition.answer = <<Location(r.res.resolvedPath \o ".html", 0, 0)>>

\* C8: when none of raw, raw.html, raw.htm, raw.md exists the resolver result
\* has exists = false and its path does not exist (go-to-definition answers
\* nothing).
C8_NoCandidateNoPath ==
    \A d \in DOMAIN diagnostics : \A k \in 1..Len(trace[d].includes) :
        LET r == trace[d].includes[k]
            cands == SpecCandidates(SpecBase(d, r.res.type, r.res.path, getWorkspaceFolder(d)))
        IN (\A c \in 1..Len(cands) : ~ExistsSync(cands[c]))
            => /\ ~r.res.exists
               /\ ~ExistsSync(r.res.expectedPath)
               /\ AnswersFor(d, r) => definition.answer = <<>>

\* a reference without existing candidate has been resolved by both consumers
C8_Witness ==
    \E d \in DOMAIN diagnostics : \E k \in 1..Len(trace[d].includes) :
        LET r == trace[d].includes[k]
        IN /\ SpecExistingPath(SpecCandidates(r.res.resolvedPath)) = Undefined
           /\ ~r.res.exists
           /\ AnswersFor(d, r)

SpecTemplateCandidates(ref, root) ==
    LET suffix == IF PathExtname(ref) = "" THEN ".html" ELSE ""
    IN << PathJoin(<<root, sourceDirectory, "layouts", ref>>) \o suffix,
          PathJoin(<<root, sourceDirectory, "components", ref>>) \o suffix,
          PathJoin(<<root, sourceDirectory, ref>>) \o suffix >>

\* C10: the parent of an extends reference is the first existing file among
\* sourceDirectory/layouts/<ref>, sourceDirectory/components/<ref> and
\* sourceDirectory/<ref> (.html appended to a reference without extension);
\* when none exists the parent is unresolved and reported as not found.
C10_TemplateLookupOrder ==
    \A d \in DOMAIN diagnostics : \A k \in 1..Len(trace[d].templates) :
        LET t == trace[d].templates[k]
            first == SpecExistingPath(SpecTemplateCandidates(t.extendsPath,
                                                             getWorkspaceFolder(d)))
        IN /\ t.templatePath = first
           /\ first = Undefined <=> <<t.line, t.col>> \in FindingsAt(d, "template-not-found")

\* the parent was found under components while a file of that name also
\* exists directly under the source directory
C10_Witness ==
    \E d \in DOMAIN diagnostics : \E k \in 1..Len(trace[d].templates) :
        LET cands == SpecTemplateCandidates(trace[d].templates[k].extendsPath,
                                            getWorkspaceFolder(d))
        IN /\ ~ExistsSync(cands[1]) /\ ExistsSync(cands[2]) /\ ExistsSync(cands[3])
           /\ trace[d].templates[k].templatePath = cands[2]
           /\ FindingsAt(d, "template-not-found") = {}

(***************************************************************************)
(* Documents with template constructs beside their parents                 *)
(***************************************************************************)
MaxConstructs == 3      \* template constructs of the analysed document

SlotsDocument == "/ws/src/pages/a.html"
BaseLayout == "/ws/src/layouts/base.html"

\* <template extends=...>, <template slot=...> and a tag with both attributes
SlotsTokens ==
    {Template("base", ""), Template("other", ""), Template("", "content"),
     Template("", "sidebar"), Template("base", "title")}

\* every construct on a line of its own, or all of them on one line
SlotsTexts ==
    UNION { UNION { {OnePerLine(t), <<t>>} : t \in [1..k -> SlotsTokens] }
            : k \in 0..MaxConstructs }

\* slot declarations of a parent, one per line
ParentTexts ==
    { OnePerLine([k \in 1..Len(names) |-> SlotDecl(names[k])]) :
        names \in { <<>>, <<"title", "content">>, <<"content", "title", "content">>,
                    <<"Content">>, <<"title", "title">> } }

ParentFileSystems(docText) ==
    { [p \in {SlotsDocument} \cup present |->
          IF p = SlotsDocument THEN docText
          ELSE baseText]
      : present \in SUBSET {BaseLayout}, baseText \in ParentTexts }

InitSlots ==
    /\ workspaceFolders = <<"/ws">>
    /\ sourceDirectory = "src"
    /\ \E docText \in SlotsTexts : fs \in ParentFileSystems(docText)
    /\ textDocuments = {SlotsDocument, BaseLayout} \cap DOMAIN fs
    /\ diagnostics = <<>>
    /\ trace = <<>>
    /\ definition = NoDefinition
    /\ Activated
    /\ unreadable = {}

SpecSlots == InitSlots /\ [][Next]_vars

\* the extends declarations of a file with their positions, in order
ExtendsDecls(file) ==
    SelectSeq(Located(fs[file], 1), LAMBDA t : t.tok.kind = "template" /\ t.tok.val # "")

\* the slot usages of a file with their positions, in order
SlotUses(file) ==
    SelectSeq(Located(fs[file], 1), LAMBDA t : t.tok.kind = "template" /\ t.tok.slot # "")

(***************************************************************************)
(* C11  Several extends declarations                                       *)
(***************************************************************************)
\* C11: in a document with several extends declarations only the first is
\* resolved as the template link; every later one gets a
\* redundant-template-extends finding and no template-not-found finding.
C11_FirstExtendsAuthoritative ==
    \A d \in DOMAIN diagnostics :
        LET decls == ExtendsDecls(d)
        IN Len(decls) > 1
            => /\ Len(trace[d].templates) = 1
               /\ \A k \in 2..Len(decls) :
                    /\ <<decls[k].line, decls[k].col>>
                          \in FindingsAt(d, "redundant-template-extends")
                    /\ <<decls[k].line, decls[k].col>>
                          \notin FindingsAt(d, "template-not-found")

(***************************************************************************)
(* C12, C13, C14  Slot comparison                                          *)
(***************************************************************************)
\* the parent of a document: the file its first extends declaration leads to
\* in the priority search, Undefined without declaration or without file
SpecParent(d) ==
    IF Len(ExtendsDecls(d)) = 0 THEN Undefined
    ELSE SpecExistingPath(SpecTemplateCandidates(ExtendsDecls(d)[1].tok.val,
                                                 getWorkspaceFolder(d)))

\* the slot declarations of a file, in order
SlotDeclNames(file) ==
    LET decls == SelectSeq(Flatten(fs[file]), LAMBDA tok : tok.kind = "slot")
    IN [k \in 1..Len(decls) |-> decls[k].val]

\* the declared-slot list: each name once, at the place of its first
\* declaration
SpecDeclaredSlots(file) ==
    LET names == SlotDeclNames(file)
        firsts == {k \in 1..Len(names) : \A j \in 1..(k - 1) : names[j] # names[k]}
        nth(i) == CHOOSE k \in firsts : Cardinality({j \in firsts : j <= k}) = i
    IN [i \in 1..Cardinality(firsts) |-> names[nth(i)]]

SpecDeclaredSet(file) ==
    {SlotDeclNames(file)[k] : k \in 1..Len(SlotDeclNames(file))}

\* the undefined-slot findings published for a document, in order
UndefinedSlotFindings(d) ==
    SelectSeq(diagnostics[d], LAMBDA f : f.code = "undefined-slot")

\* the slot usages of a document whose name the parent does not declare
UndeclaredUses(d, parent) ==
    SelectSeq(SlotUses(d), LAMBDA u : u.tok.slot \notin SpecDeclaredSet(parent))

\* C12: when the parent of a document resolves to a file, the analysis
\* publishes one undefined-slot finding of severity Warning for each slot usage
\* whose name the parent does not declare, at the usage, and none for a usage
\* whose name is declared.
C12_SlotComparison ==
    \A d \in DOMAIN diagnostics :
        LET parent == SpecParent(d)
            found == UndefinedSlotFindings(d)
        IN (parent # Undefined /\ parent \in DOMAIN fs)
            => LET missing == UndeclaredUses(d, parent)
               IN /\ Len(found) = Len(missing)
                  /\ \A k \in 1..Len(found) :
                        /\ found[k].severity = "Warning"
                        /\ found[k].line = missing[k].line
                        /\ found[k].col = missing[k].col

\* parent slots {title, content}, usages content and sidebar: exactly one
\* finding, for sidebar
C12_Witness ==
    \E d \in DOMAIN diagnostics :
        /\ SpecParent(d) \in DOMAIN fs
        /\ SpecDeclaredSet(SpecParent(d)) = {"title", "content"}
        /\ {SlotUses(d)[k].tok.slot : k \in 1..Len(SlotUses(d))} = {"content", "sidebar"}
        /\ Len(UndefinedSlotFindings(d)) = 1
        /\ UndefinedSlotFindings(d)[1].message
              = "Slot 'sidebar' is not defined in the extended template"

\* the suggestion of an undefined-slot finding for a declared-slot list
SpecSuggestion(declared) ==
    IF Len(declared) = 0 THEN ""
    ELSE "Available slots: " \o JoinWith(declared, ", ")

\* positions of the slot declarations of a document
SlotDeclsAt(d) ==
    LET ts == Located(fs[d], 1)
    IN {<<ts[k].line, ts[k].col>> : k \in {i \in 1..Len(ts) : ts[i].tok.kind = "slot"}}

\* C13: a slot usage is undefined exactly when no declared name equals it as
\* a string (case matters); every undefined-slot finding carries the parent's
\* declared-slot list, each name once in order of first declaration, as its
\* suggestion; a slot declaration, duplicate or not, gets no finding.
C13_SlotNamesExact ==
    \A d \in DOMAIN diagnostics :
        /\ \A k \in 1..Len(diagnostics[d]) :
              <<diagnostics[d][k].line, diagnostics[d][k].col>> \notin SlotDeclsAt(d)
        /\ LET parent == SpecParent(d)
           IN (parent # Undefined /\ parent \in DOMAIN fs)
               => LET declared == SpecDeclaredSlots(parent)
                      found == UndefinedSlotFindings(d)
                  IN /\ \A k \in 1..Len(SlotUses(d)) :
                          LET u == SlotUses(d)[k]
                          IN <<u.line, u.col>> \in FindingsAt(d, "undefined-slot")
                               <=> \A n \in 1..Len(declared) : declared[n] # u.tok.slot
                     /\ \A k \in 1..Len(found) :
                          found[k].related = SpecSuggestion(declared)

\* a parent that declares content, title, content has been analysed without
\* finding, and its child got the list "content, title" with an undefined slot
C13_Witness ==
    \E d \in DOMAIN diagnostics :
        /\ SpecParent(d) \in DOMAIN diagnostics
        /\ SlotDeclNames(SpecParent(d)) = <<"content", "title", "content">>
        /\ diagnostics[SpecParent(d)] = <<>>
        /\ Len(UndefinedSlotFindings(d)) > 0
        /\ UndefinedSlotFindings(d)[1].related = "Available slots: content, title"

\* C14: when the extends reference of a document has no existing parent in
\* the priority search, the analysis publishes template-not-found at the
\* declaration and no undefined-slot finding; an undefined-slot finding is
\* published only for a document whose parent is found.
C14_NoParentNoSlotFindings ==
    \A d \in DOMAIN diagnostics :
        /\ (Len(ExtendsDecls(d)) > 0 /\ SpecParent(d) = Undefined)
              => /\ <<ExtendsDecls(d)[1].line, ExtendsDecls(d)[1].col>>
                       \in FindingsAt(d, "template-not-found")
                 /\ FindingsAt(d, "undefined-slot") = {}
        /\ FindingsAt(d, "undefined-slot") # {} => SpecParent(d) # Undefined

\* a document with slot usages whose parent is nowhere has been analysed
C14_Witness ==
    \E d \in DOMAIN diagnostics :
        /\ Len(ExtendsDecls(d)) > 0
        /\ SpecParent(d) = Undefined
        /\ Len(SlotUses(d)) > 0
        /\ FindingsAt(d, "template-not-found") # {}
        /\ FindingsAt(d, "undefined-slot") = {}

(***************************************************************************)
(* Documents with well-formed and malformed constructs                     *)
(***************************************************************************)
SyntaxDocument == "/ws/src/a.html"
SyntaxInclude == "/ws/src/x.html"

SyntaxTokens ==
    {Include("path", "x.html"), Include("file", "x.html"), Include("file", "b?.html"),
     Template("", ""), Template("base", "side"), EndTemplate}

\* every construct on a line of its own, or all of them on one line
SyntaxTexts ==
    UNION { UNION { {OnePerLine(t), <<t>>} : t \in [1..k -> SyntaxTokens] }
            : k \in 0..MaxConstructs }

\* x.html, when present, includes the document; the layout declares a slot
SyntaxFileSystems(docText) ==
    { [p \in {SyntaxDocument} \cup present |->
          IF p = SyntaxDocument THEN docText
          ELSE IF p = SyntaxInclude THEN <<  <<Include("file", "a.html")>>  >>
          ELSE <<  <<SlotDecl("title")>>  >>]
      : present \in SUBSET {SyntaxInclude, BaseLayout} }

InitSyntax ==
    /\ workspaceFolders = <<"/ws">>
    /\ sourceDirectory = "src"
    /\ \E docText \in SyntaxTexts : fs \in SyntaxFileSystems(docText)
    /\ textDocuments = {SyntaxDocument, SyntaxInclude} \cap DOMAIN fs
    /\ diagnostics = <<>>
    /\ trace = <<>>
    /\ definition = NoDefinition
    /\ Activated
    /\ unreadable = {}

SpecSyntax == InitSyntax /\ [][Next]_vars

\* the constructs of a document with their positions, as a set
ConstructsOf(d) == {Located(fs[d], 1)[k] : k \in 1..Len(Located(fs[d], 1))}

\* number of findings of a kind at a position
CountAt(d, code, line, col) ==
    Cardinality({i \in 1..Len(diagnostics[d]) :
                    /\ diagnostics[d][i].code = code
                    /\ diagnostics[d][i].line = line
                    /\ diagnostics[d][i].col = col})

\* the include stage resolved the construct at a position
ResolvedAt(d, line, col) ==
    \E k \in 1..Len(trace[d].includes) :
        trace[d].includes[k].line = line /\ trace[d].includes[k].col = col

\* the construct is not resolved and has no include finding
NotAnInclude(d, t) ==
    /\ ~ResolvedAt(d, t.line, t.col)
    /\ <<t.line, t.col>> \notin FindingsAt(d, "include-not-found")
    /\ <<t.line, t.col>> \notin FindingsAt(d, "circular-include")

(***************************************************************************)
(* C15, C16  Malformed include markers                                     *)
(***************************************************************************)
\* C15: every include marker whose attribute is neither virtual nor file
\* gets exactly one malformed-include finding and is not resolved: no include
\* edge, no include-not-found and no circular-include finding.
C15_WrongAttributeMalformed ==
    \A d \in DOMAIN diagnostics : \A t \in ConstructsOf(d) :
        (t.tok.kind = "include" /\ t.tok.attr \notin {"virtual", "file"})
            => /\ CountAt(d, "malformed-include", t.line, t.col) = 1
               /\ NotAnInclude(d, t)

\* C16: every include directive whose path holds one of < > | * ? gets a
\* malformed-syntax finding and is not resolved: no include edge, no
\* include-not-found and no circular-include finding.
C16_ReservedCharacterMalformed ==
    \A d \in DOMAIN diagnostics : \A t \in ConstructsOf(d) :
        (/\ t.tok.kind = "include" /\ t.tok.attr \in {"virtual", "file"}
         /\ \E i \in 1..Len(t.tok.val) : CharAt(t.tok.val, i) \in {"<", ">", "|", "*", "?"})
            => /\ <<t.line, t.col>> \in FindingsAt(d, "invalid-path-chars")
               /\ NotAnInclude(d, t)

(***************************************************************************)
(* C17  Unclosed template                                                  *)
(***************************************************************************)
\* a closing tag follows the construct t on its line
ClosedOnLine(d, t) ==
    \E u \in ConstructsOf(d) :
        u.tok.kind = "endtemplate" /\ u.line = t.line /\ u.col > t.col

\* a closing tag stands on a later line
ClosedLater(d, t) ==
    \E u \in ConstructsOf(d) : u.tok.kind = "endtemplate" /\ u.line > t.line

\* C17 as claimed: a <template> opening gets an unclosed-template finding
\* exactly when no closing tag follows it on its line and none stands on a
\* later line.
C17_UnclosedAcrossLines ==
    \A d \in DOMAIN diagnostics : \A t \in ConstructsOf(d) :
        t.tok.kind = "template"
            => (<<t.line, t.col>> \in FindingsAt(d, "unclosed-template")
                  <=> ~ClosedOnLine(d, t) /\ ~ClosedLater(d, t))

\* C17 as amended: a <template> opening gets an unclosed-template finding
\* exactly when no closing tag follows it on its line and no earlier opening
\* of the line is in the same case; later lines are not looked at.
C17_UnclosedOnLine ==
    \A d \in DOMAIN diagnostics : \A t \in ConstructsOf(d) :
        t.tok.kind = "template"
            => (<<t.line, t.col>> \in FindingsAt(d, "unclosed-template")
                  <=> /\ ~ClosedOnLine(d, t)
                      /\ \A u \in ConstructsOf(d) :
                            (u.tok.kind = "template" /\ u.line = t.line /\ u.col < t.col)
                                => ClosedOnLine(d, u))

\* an opening whose closing tag stands on a later line has been reported
C17_Witness ==
    \E d \in DOMAIN diagnostics : \E t \in ConstructsOf(d) :
        /\ t.tok.kind = "template"
        /\ ClosedLater(d, t)
        /\ <<t.line, t.col>> \in FindingsAt(d, "unclosed-template")

(***************************************************************************)
(* C18  Order of the findings                                              *)
(***************************************************************************)
\* stage priority of a finding: Include 1, Template 2, Slot 3, Syntax 4
StageOf(code) ==
    CASE code \in {"include-not-found", "circular-include"} -> 1
      [] code = "template-not-found" -> 2
      [] code = "undefined-slot" -> 3
      [] OTHER -> 4

\* the checks of the syntax stage in the order they are made on a line
CheckOf(code) ==
    CASE code = "malformed-include" -> 1
      [] code = "unclosed-template" -> 2
      [] code = "invalid-path-chars" -> 3
      [] OTHER -> 0

\* lexicographic order on triples of numbers
LexLeq(a, b) ==
    \/ a[1] < b[1]
    \/ a[1] = b[1] /\ a[2] < b[2]
    \/ a[1] = b[1] /\ a[2] = b[2] /\ a[3] <= b[3]

\* C18 as claimed: the findings of an analysis are ordered by line, then
\* column, then stage priority.
C18_OrderedByPosition ==
    \A d \in DOMAIN diagnostics :
        \A i, j \in 1..Len(diagnostics[d]) :
            i < j => LexLeq(<<diagnostics[d][i].line, diagnostics[d][i].col,
                              StageOf(diagnostics[d][i].code)>>,
                            <<diagnostics[d][j].line, diagnostics[d][j].col,
                              StageOf(diagnostics[d][j].code)>>)

\* sort key of a finding in the list as published
StageKey(f) ==
    IF StageOf(f.code) = 4 THEN <<4, f.line, CheckOf(f.code)>>
    ELSE <<StageOf(f.code), f.line, f.col>>

\* C18 as amended: the findings of an analysis are ordered by stage (Include,
\* Template, Slot, Syntax); within the first three stages by line, then
\* column; within the Syntax stage by line, then by check.
C18_OrderedByStage ==
    \A d \in DOMAIN diagnostics :
        \A i, j \in 1..Len(diagnostics[d]) :
            i < j => LexLeq(StageKey(diagnostics[d][i]), StageKey(diagnostics[d][j]))

\* an include finding on a later line stands before a syntax finding on an
\* earlier line
C18_Witness ==
    \E d \in DOMAIN diagnostics :
        \E i, j \in 1..Len(diagnostics[d]) :
            /\ i < j
            /\ StageOf(diagnostics[d][i].code) = 1
            /\ StageOf(diagnostics[d][j].code) = 4
            /\ diagnostics[d][j].line < diagnostics[d][i].line

FailingTokens ==
    {Include("file", "b.html"), Include("file", "c.html"),
     Include("file", "missing.html"), Template("base", "side")}

FailingTexts ==
    UNION { {OnePerLine(t) : t \in [1..k -> FailingTokens]} : k \in 0..MaxConstructs }

\* b.html is absent, empty or includes c.html or the document; c.html is
\* absent or empty; the layout is absent or declares a slot
FailingFileSystems(docText) ==
    { [p \in {SrcFile("a")} \cup (DOMAIN others) |->
          IF p = SrcFile("a") THEN docText ELSE others[p]]
      : others \in
          { [p \in present |->
                IF p = SrcFile("b") THEN bText
                ELSE IF p = BaseLayout THEN <<  <<SlotDecl("title")>>  >> ELSE <<>>]
            : present \in SUBSET {SrcFile("b"), SrcFile("c"), BaseLayout},
              bText \in {<<>>, <<  <<Include("file", "c.html")>>  >>,
                         <<  <<Include("file", "a.html")>>  >>} } }

InitFailing ==
    /\ workspaceFolders = <<"/ws">>
    /\ sourceDirectory = "src"
    /\ \E docText \in FailingTexts : fs \in FailingFileSystems(docText)
    /\ unreadable \in SUBSET (DOMAIN fs \ {SrcFile("a")})
    /\ textDocuments = {SrcFile("a")}
    /\ diagnostics = <<>>
    /\ trace = <<>>
    /\ definition = NoDefinition
    /\ Activated

SpecFailing == InitFailing /\ [][Next]_vars

(***************************************************************************)
(* C20  Read failures                                                      *)
(***************************************************************************)
\* every include directive of d without existing candidate is reported
MissingReported(d) ==
    \A k \in 1..Len(IncludeEdges(d)) :
        IncludeEdges(d)[k].target = Undefined
            => <<IncludeEdges(d)[k].line, IncludeEdges(d)[k].col>>
                   \in FindingsAt(d, "include-not-found")

FirstTarget(res) == res.checks[1].targetFile

\* C24: every cycle check ends, whatever the include graph: it is called
\* once on the directive's target and at most once per include directive of
\* that target, and each of these further calls returns without opening a
\* file, so that no file other than the target is read.
C24_BoundedCycleCheck ==
    \A d \in DOMAIN diagnostics : \A k \in 1..Len(trace[d].includes) :
        LET res == trace[d].includes[k].res
        IN Len(res.checks) > 0 =>
              /\ Len(res.checks) <= 1 + Len(IncludeEdges(FirstTarget(res)))
              /\ res.checks[1].currentFile = d
              /\ \A c \in 2..Len(res.checks) :
                    res.checks[c].currentFile \in res.checks[c].visited
              /\ \A e \in 1..Len(res.edges) : res.edges[e].from = FirstTarget(res)

\* a document was analysed whose include leads into a cycle of two other
\* files, and the check of that include made its further call
C24_Witness ==
    \E d \in DOMAIN diagnostics : \E B, C \in DOMAIN fs :
        /\ d \notin {B, C}
        /\ IsTwoFileCycle(B, C)
        /\ \E k \in 1..Len(trace[d].includes) :
              /\ IncludeEdges(d)[k].target = B
              /\ Len(trace[d].includes[k].res.checks) = 2

(***************************************************************************)
(* Hover (src/providers/hoverProvider.ts) and completion                   *)
(* (src/src/providers/completionProvider.ts): the parent template          *)
(***************************************************************************)
\* the loop over possiblePaths of the completion provider: the first
\* candidate that exists as written
RECURSIVE firstExistingAsWritten(_)
firstExistingAsWritten(possiblePaths) ==
    IF Len(possiblePaths) = 0 THEN Undefined
    ELSE IF ExistsSync(Head(possiblePaths)) THEN Head(possiblePaths)
         ELSE firstExistingAsWritten(Tail(possiblePaths))

\* UnifyCompletionProvider.findExtendedTemplate
completionFindExtendedTemplate(fileName, lines) ==
    LET matches == SelectSeq(Flatten(lines), templateRegex)
        workspaceRoot == getWorkspaceFolder(fileName)
    IN IF Len(matches) > 0 /\ workspaceRoot # Undefined
       THEN firstExistingAsWritten(templatePossiblePaths(matches[1].val, workspaceRoot))
       ELSE Undefined

\* UnifyHoverProvider.findExtendedTemplate
hoverFindExtendedTemplate(fileName, lines) ==
    LET matches == SelectSeq(Flatten(lines), templateRegex)
        workspaceRoot == getWorkspaceFolder(fileName)
    IN IF Len(matches) > 0 /\ workspaceRoot # Undefined
       THEN firstExistingTemplate(templatePossiblePaths(matches[1].val, workspaceRoot))
       ELSE Undefined

\* provideHover with the cursor on the <slot name=...> at (line, col)
provideHover(document, line, col) ==
    /\ document \in textDocuments
    /\ document \in DOMAIN fs
    /\ IsHtmlDocument(document)
    /\ line \in 1..Len(fs[document])
    /\ col \in 1..Len(fs[document][line])
    /\ fs[document][line][col].kind = "slot"
    /\ Len(fs[document][line][col].val) > 0
    /\ hover' = [document |-> document,
                 parent |-> hoverFindExtendedTemplate(document, fs[document])]

\* provideCompletionItems with the cursor in the name of the <slot name=...>
\* at (line, col)
provideCompletionItems(document, line, col) ==
    /\ document \in textDocuments
    /\ document \in DOMAIN fs
    /\ IsHtmlDocument(document)
    /\ line \in 1..Len(fs[document])
    /\ col \in 1..Len(fs[document][line])
    /\ fs[document][line][col].kind = "slot"
    /\ completion' = [document |-> document,
                      parent |-> completionFindExtendedTemplate(document, fs[document])]

ProvideHover ==
    /\ \E document \in textDocuments :
          \E line \in 1..Len(fs[document]) :
              \E col \in 1..Len(fs[document][line]) :
                  provideHover(document, line, col)
    /\ UNCHANGED <<workspace, fs, analysis, completion, outputChannel, debouncer,
                   handled, activation, preview>>

ProvideCompletionItems ==
    /\ \E document \in textDocuments :
          \E line \in 1..Len(fs[document]) :
              \E col \in 1..Len(fs[document][line]) :
                  provideCompletionItems(document, line, col)
    /\ UNCHANGED <<workspace, fs, analysis, hover, outputChannel, debouncer,
                   handled, activation, preview>>

\* A document that extends a parent and declares a slot, beside files in the
\* places a parent can be looked up
ConsumersRefs == {"base", "base.md"}
ConsumersEntries ==
    {"/ws/src/layouts/base.html", "/ws/src/layouts/base", "/ws/src/components/base.md",
     "/ws/src/pages/base.html"} \X {<<>>}

InitConsumers ==
    /\ workspaceFolders = <<"/ws">>
    /\ sourceDirectory = "src"
    /\ \E ref \in ConsumersRefs :
          fs \in WithFiles(TemplateDocument,
                           << <<Template(ref, ""), SlotDecl("main"), EndTemplate>> >>,
                           ConsumersEntries)
    /\ textDocuments = {TemplateDocument}
    /\ diagnostics = <<>>
    /\ trace = <<>>
    /\ definition = NoDefinition
    /\ Activated
    /\ unreadable = {}

NextConsumers ==
    UpdateDiagnostics \/ ProvideDefinition \/ ProvideHover \/ ProvideCompletionItems

SpecConsumers == InitConsumers /\ [][NextConsumers]_vars

(***************************************************************************)
(* C28  The consumers agree on the parent                                  *)
(***************************************************************************)
\* the parent each consumer has answered for document d, once it has
DiagnosticsParent(d) == trace[d].templates[1].templatePath

DefinitionParent ==
    IF definition.answer = <<>> THEN Undefined ELSE definition.answer[1].uri

\* go-to-definition was last asked on the extends reference of d
DefinitionOnExtends(d) ==
    /\ definition.document = d
    /\ fs[d][definition.line + 1][definition.col + 1].kind = "template"

\* C28: go-to-definition, hover, slot-name completion and diagnostics name
\* the same parent file (or none) for the extends reference of a document.
C28_ConsumersAgree ==
    \A d \in textDocuments :
        /\ (hover.document = d /\ completion.document = d)
              => hover.parent = completion.parent
        /\ (hover.document = d /\ d \in DOMAIN trace)
              => hover.parent = DiagnosticsParent(d)
        /\ (DefinitionOnExtends(d) /\ d \in DOMAIN trace)
              => DefinitionParent = DiagnosticsParent(d)

(***************************************************************************)
(* C21  Cancellation                                                       *)
(***************************************************************************)
\* C21: a request whose cancellation token was raised while it ran ends with
\* the explicit outcome "cancelled": it answers no locations and publishes
\* no findings.
C21_CancelledOutcome ==
    definition.token = "cancelled" => definition.answer = "cancelled"

(***************************************************************************)
(* Fallback renderer (src/integration/unifyRenderer.ts)                    *)
(***************************************************************************)
\* text that holds none of the constructs
Text(s) == [kind |-> "text", attr |-> "", val |-> s, slot |-> ""]

\* the characters of a construct
TokenText(tok) ==
    CASE tok.kind = "include" ->
            "<!--#include " \o tok.attr \o "=\"" \o tok.val \o "\" -->"
      [] tok.kind = "template" ->
            "<template"
            \o (IF tok.val # "" THEN " extends=\"" \o tok.val \o "\"" ELSE "")
            \o (IF tok.slot # "" THEN " slot=\"" \o tok.slot \o "\"" ELSE "") \o ">"
      [] tok.kind = "endtemplate" -> "</template>"
      [] tok.kind = "slot" -> "<slot name=\"" \o tok.val \o "\">"
      [] OTHER -> tok.val

\* document.getText() and readFileSync: the lines joined by line breaks
RECURSIVE getText(_)
getText(lines) ==
    IF Len(lines) = 0 THEN <<>>
    ELSE IF Len(lines) = 1 THEN lines[1]
    ELSE lines[1] \o <<Text("\n")>> \o getText(Tail(lines))

\* the number of characters of the first n constructs of a content
RECURSIVE CharsBefore(_, _)
CharsBefore(content, n) ==
    IF n = 0 THEN 0
    ELSE CharsBefore(content, n - 1) + Len(TokenText(content[n]))

\* match.index of the construct at index k
OffsetOf(content, k) == CharsBefore(content, k - 1)

\* document.positionAt(offset): the construct of the document that holds the
\* character at the offset
positionAt(lines, offset) ==
    LET toks == Located(lines, 1)
        chars == [k \in 1..Len(toks) |-> toks[k].tok]
        start(k) == CharsBefore(chars, k - 1) + toks[k].line
        upTo == {k \in 1..Len(toks) : start(k) <= offset}
    IN IF upTo = {} THEN [line |-> 0, col |-> 0]
       ELSE LET k == CHOOSE x \in upTo : \A y \in upTo : y <= x
            IN [line |-> toks[k].line, col |-> toks[k].col]

\* path.join(this.workspaceRoot, this.config.source)
sourceRoot == PathJoin(<<firstWorkspaceFolder, sourceDirectory>>)

\* What the rest of the loop depends on: the constructs from lastIndex on and
\* the include directives before it (String.replace takes the first
\* occurrence of the matched text, wherever it is).
Situation(r) ==
    [suffix |-> SelectSeq([k \in 1..Len(r.content) |->
                              IF OffsetOf(r.content, k) >= r.lastIndex
                              THEN r.content[k] ELSE Text("")],
                          LAMBDA tok : tok # Text("")),
     before |-> {r.content[k] : k \in {j \in 1..Len(r.content) :
                    /\ OffsetOf(r.content, j) < r.lastIndex
                    /\ r.content[j].kind = "include"}}]

\* renderFallback up to the loop
renderStart(document) ==
    [document |-> document, content |-> getText(fs[document]), lastIndex |-> 0,
     diagnostics |-> <<>>, running |-> TRUE, seen |-> {}]

\* One evaluation of the loop condition and, when the regular expression
\* matches from lastIndex on, one run of the loop body.
renderStep(r) ==
    LET content == r.content
        hits == {k \in 1..Len(content) :
                    includeRegex(content[k]) /\ OffsetOf(content, k) >= r.lastIndex}
    IN IF hits = {} THEN [r EXCEPT !.running = FALSE, !.lastIndex = 0]
       ELSE
         LET k == CHOOSE x \in hits : \A y \in hits : x <= y
             match == content[k]
             index == OffsetOf(content, k)
             occurrences == {j \in 1..Len(content) : content[j] = match}
             first == CHOOSE x \in occurrences : \A y \in occurrences : x <= y
             resolvedPath == IF match.attr = "virtual"
                             THEN PathJoin(<<sourceRoot, match.val>>)
                             ELSE PathResolve(PathDirname(r.document), match.val)
             at == positionAt(fs[r.document], index)
             seen == IF first = k THEN r.seen \cup {Situation(r)} ELSE {}
             next == [r EXCEPT !.lastIndex = index + Len(TokenText(match)),
                               !.seen = seen]
         IN IF ExistsSync(resolvedPath) /\ CanRead(resolvedPath)
            THEN [next EXCEPT !.content =
                     SubSeq(content, 1, first - 1) \o getText(fs[resolvedPath])
                        \o SubSeq(content, first + 1, Len(content))]
            ELSE IF ExistsSync(resolvedPath)
            THEN [next EXCEPT !.diagnostics = Append(@,
                     Diagnostic("", "Error", at,
                                "Error processing include: cannot read " \o resolvedPath, ""))]
            ELSE [next EXCEPT
                     !.content = SubSeq(content, 1, first - 1)
                        \o <<Text("<!-- Include not found: " \o match.val \o " -->")>>
                        \o SubSeq(content, first + 1, Len(content)),
                     !.diagnostics = Append(@,
                        Diagnostic("", "Error", at,
                                   "Include file not found: " \o match.val, ""))]

MaxContent == 9         \* constructs of a content the loop is followed on

\* renderDocument(document) without the Unify CLI: renderFallback starts
RenderDocument ==
    /\ ~render.running
    /\ \E document \in textDocuments : render' = renderStart(document)
    /\ UNCHANGED <<workspace, fs, analysis, providers, outputChannel, debouncer,
                   handled, activation, panels, previewTimeout, webview>>

\* the loop of renderFallback runs once more
RenderStep ==
    /\ render.running
    /\ Len(render.content) <= MaxContent
    /\ render' = renderStep(render)
    /\ UNCHANGED <<workspace, fs, analysis, providers, outputChannel, debouncer,
                   handled, activation, panels, previewTimeout, webview>>

\* A document with include directives beside files that hold plain text,
\* directives of their own, or nothing
RenderDocumentPath == "/ws/src/a.html"
Partial(n) == "/ws/src/" \o n \o ".html"
Paragraph == Text("<p>Lorem ipsum dolor sit amet.</p>")
Rule == Text("<hr>")

RenderTexts ==
    { << <<Include("file", "b.html")>> >>,
      << <<Include("virtual", "b.html")>>, <<Include("file", "c.html")>> >>,
      << <<Include("file", "b.html"), Rule, Include("file", "b.html")>> >>,
      << <<Paragraph>>, <<Include("file", "a.html")>> >> }

PartialTexts ==
    { <<>>,
      << <<Rule>> >>,
      << <<Include("file", "b.html")>> >>,
      << <<Rule, Include("file", "c.html")>> >>,
      << <<Paragraph, Include("file", "c.html")>> >>,
      << <<Paragraph>>, <<Include("file", "b.html")>> >> }

RenderFileSystems ==
    UNION { [ {RenderDocumentPath} \cup present ->  RenderTexts \cup PartialTexts ]
            : present \in SUBSET {Partial("b"), Partial("c")} }

InitRender ==
    /\ workspaceFolders = <<"/ws">>
    /\ sourceDirectory = "src"
    /\ fs \in RenderFileSystems
    /\ fs[RenderDocumentPath] \in RenderTexts
    /\ \A p \in DOMAIN fs \ {RenderDocumentPath} : fs[p] \in PartialTexts
    /\ textDocuments = {RenderDocumentPath}
    /\ diagnostics = <<>>
    /\ trace = <<>>
    /\ definition = NoDefinition
    /\ Activated
    /\ unreadable = {}

NextRender == RenderDocument \/ RenderStep

SpecRender == InitRender /\ [][NextRender]_vars

(***************************************************************************)
(* C27  The fallback renderer terminates                                   *)
(***************************************************************************)
\* C27: the include-replacement loop ends for every document and file
\* system: it never comes back to a situation it has been in before (from
\* which it would repeat itself without end).
C27_RenderTerminates ==
    render.running => Situation(render) \notin render.seen

(***************************************************************************)
(* Events and timers (diagnostics.ts, previewProvider.ts, extension.ts)    *)
(***************************************************************************)
\* how a call of updateDiagnostics ends: its try block publishes, its catch
\* block logs; the promise it returns is never rejected
updateOutcome(document) ==
    IF analysisThrows(document, fs[document]) THEN "caught" ELSE "published"

\* the record of a handler that called updateDiagnostics n times
Handled(event, document, n) ==
    [event |-> event, document |-> document, analyses |-> n,
     outcome |-> IF n = 0 THEN "none" ELSE updateOutcome(document)]

\* m without key k
Without(m, k) == [x \in DOMAIN m \ {k} |-> m[x]]

\* setTimeout: a timer that is not any of the pending ones
NewTimer(pendingTimers) ==
    CHOOSE n \in 1..(Cardinality(pendingTimers) + 1) :
        \A t \in pendingTimers : t.id # n

scheduleUpdate_keepTimer(document) ==
    LET timeout == NewTimer(timers)
    IN /\ timers' = timers \cup {[id |-> timeout, document |-> document]}
       /\ updateTimeout' = Put(updateTimeout, document, timeout)

\* scheduleUpdate(document): the timer stored for the document is cleared, a
\* new one is set and stored
scheduleUpdate(document) ==
    LET kept == IF document \in DOMAIN updateTimeout
                THEN {t \in timers : t.id # updateTimeout[document]}
                ELSE timers
        timeout == NewTimer(kept)
    IN /\ timers' = kept \cup {[id |-> timeout, document |-> document]}
       /\ updateTimeout' = Put(updateTimeout, document, timeout)

\* the loop of renderFallback run to its end (or as far as it is followed)
RECURSIVE renderLoop(_)
renderLoop(r) ==
    IF ~r.running \/ Len(r.content) > MaxContent THEN r
    ELSE renderLoop(renderStep(r))

renderDocument(document) == renderLoop(renderStart(document))

\* what panel.webview.html shows: the rendered content and the text it was
\* rendered from
Shown(document, result) == [html |-> result.content, source |-> fs[document]]

\* updatePanel(panel, document): the document is rendered, the findings of
\* the renderer are set for it and the panel shows the result
updatePanel(document) ==
    \E result \in {renderDocument(document)} :
        /\ ~result.running
        /\ diagnostics' = Put(diagnostics, document, result.diagnostics)
        /\ webview' = Put(webview, document, Shown(document, result))
        /\ outputChannel' = "Preview updated for " \o document

\* the timers followed at one time (more than the two documents can have)
MaxTimers == 3

\* the panels that a refresh updates: visible panels of open documents
shownPanels == panels \cap textDocuments

\* No handler is in the middle of its work: the change event of an edit has
\* been dispatched and the panel updates that a save started have completed.
Idle ==
    /\ handled.event # "edit"
    /\ ~(handled.event = "save" /\ shownPanels # {})

\* The user types in an open document.  The change event of the edit is
\* dispatched before anything else is handled.
EditDocument(document, text) ==
    /\ Idle
    /\ Cardinality(timers) < MaxTimers
    /\ document \in textDocuments
    /\ document \in DOMAIN fs
    /\ text # fs[document]
    /\ fs' = [fs EXCEPT ![document] = text]
    /\ handled' = Handled("edit", document, 0)
    /\ UNCHANGED <<workspace, analysis, providers, outputChannel, debouncer,
                   activation, preview>>

\* onDidChangeTextDocument: the listeners of UnifyPreviewProvider (debounced
\* preview), UnifyDiagnostics (scheduleUpdate) and initializeUnifyFeatures
\* (updateDiagnostics), in the order they were registered.  The call of
\* updateDiagnostics is the conjunct that AnalysingHandler adds.
OnDidChangeTextDocument(document) ==
    /\ handled.event = "edit"
    /\ handled.document = document
    /\ previewTimeout' = document
    /\ scheduleUpdate(document)
    /\ handled' = Handled("change", document, 1)

\* onDidSaveTextDocument: the listeners of UnifyPreviewProvider (debounced
\* preview), UnifyDiagnostics (updateDiagnostics) and initializeUnifyFeatures
\* (updateDiagnostics and previewProvider.refresh()).  The two calls of
\* updateDiagnostics are the conjunct that AnalysingHandler adds; the panel
\* updates that refresh() starts complete in OnDidSaveRefresh.
OnDidSaveTextDocument(document) ==
    /\ Idle
    /\ previewTimeout' = document
    /\ handled' = Handled("save", document, 2)
    /\ UNCHANGED debouncer

\* fileWatcher.onDidChange for the file of an open document
OnDidChangeFile(document) ==
    /\ Idle
    /\ handled' = Handled("fileChange", document, 1)
    /\ UNCHANGED <<debouncer, previewTimeout>>

\* a timer of scheduleUpdate fires
DiagnosticsTimeout(timer) ==
    /\ Idle
    /\ timer \in timers
    /\ updateTimeout' = Without(updateTimeout, timer.document)
    /\ timers' = timers \ {timer}
    /\ handled' = Handled("timer", timer.document, 1)
    /\ UNCHANGED previewTimeout

\* The handlers that call updateDiagnostics(document): what each of them
\* does besides, and the call.
AnalysingHandler(document) ==
    /\ \/ OnDidChangeTextDocument(document)
       \/ OnDidSaveTextDocument(document)
       \/ OnDidChangeFile(document)
       \/ \E timer \in timers : timer.document = document /\ DiagnosticsTimeout(timer)
    /\ updateDiagnostics(document)
    /\ UNCHANGED <<workspace, fs, definition, providers, activation, panels, webview,
                   render>>

\* refreshAllPanels(): updatePanel for every shown panel.  analysedLast are
\* the documents whose analysis, started in the same turn, completes after
\* the panel's rendering and sets the findings last.
refreshAllPanels(analysedLast) ==
    /\ \A x \in shownPanels : ~renderDocument(x).running
    /\ diagnostics' = [x \in DOMAIN diagnostics \cup shownPanels |->
                          IF x \in shownPanels \ analysedLast
                          THEN renderDocument(x).diagnostics ELSE diagnostics[x]]
    /\ webview' = [x \in DOMAIN webview \cup shownPanels |->
                      IF x \in shownPanels
                      THEN Shown(x, renderDocument(x)) ELSE webview[x]]
    /\ IF analysedLast # {}
       THEN UNCHANGED outputChannel
       ELSE \E x \in shownPanels : outputChannel' = "Preview updated for " \o x

\* the panel updates of previewProvider.refresh() in the save listener
\* complete; the analysis of the saved document and the rendering of its
\* panel end in either order
OnDidSaveRefresh ==
    /\ handled.event = "save"
    /\ shownPanels # {}
    /\ \E analysedLast \in
            IF handled.outcome = "published" /\ handled.document \in shownPanels
            THEN { {}, {handled.document} } ELSE { {} } :
          refreshAllPanels(analysedLast)
    /\ handled' = Handled("refresh", handled.document, 0)
    /\ UNCHANGED <<workspace, fs, trace, definition, providers, debouncer, activation,
                   panels, previewTimeout, render>>

\* UnifyDiagnostics.dispose()
dispose ==
    /\ Idle
    /\ timers' = {t \in timers : \A d \in DOMAIN updateTimeout : updateTimeout[d] # t.id}
    /\ updateTimeout' = <<>>
    /\ diagnostics' = <<>>
    /\ handled' = Handled("dispose", Undefined, 0)
    /\ UNCHANGED <<workspace, fs, trace, definition, providers, outputChannel, activation,
                   preview>>

\* the timer of the preview fires: updatePreviewForDocument(document)
PreviewTimeout ==
    /\ Idle
    /\ previewTimeout # Undefined
    /\ IF previewTimeout \in panels
       THEN updatePanel(previewTimeout)
       ELSE UNCHANGED <<diagnostics, webview, outputChannel>>
    /\ previewTimeout' = Undefined
    /\ handled' = Handled("previewTimer", previewTimeout, 0)
    /\ UNCHANGED <<workspace, fs, trace, definition, providers, debouncer, activation,
                   panels, render>>

\* initializeUnifyFeatures(): a UnifyPreviewProvider and a UnifyDiagnostics
\* are created and the providers and listeners are registered
initializeUnifyFeatures ==
    /\ features' = features + 1
    /\ previewProvider' = features + 1
    /\ outputChannel' = "Initializing Unify features"

\* showPreview(document): getOrCreatePanel creates and fills the panel the
\* document does not have
showPreview(document) ==
    IF document \in panels
    THEN UNCHANGED <<panels, diagnostics, webview, outputChannel>>
    ELSE /\ panels' = panels \cup {document}
         /\ updatePanel(document)

\* unify.openPreview / unify.previewToSide on the active editor's document
openPreview(document) ==
    /\ Idle
    /\ isActive
    /\ document \in textDocuments
    /\ document \in DOMAIN fs
    /\ IF previewProvider = 0
       THEN /\ features' = features + 1
            /\ previewProvider' = features + 1
       ELSE UNCHANGED <<features, previewProvider>>
    /\ showPreview(document)
    /\ handled' = Handled("showPreview", document, 0)
    /\ UNCHANGED <<workspace, fs, trace, definition, providers, debouncer, isActive,
                   pending, previewTimeout, render>>

\* panel.onDidDispose: the user closes the panel
OnDidDispose(document) ==
    /\ Idle
    /\ document \in panels
    /\ panels' = panels \ {document}
    /\ handled' = Handled("closePanel", document, 0)
    /\ UNCHANGED <<workspace, fs, analysis, providers, outputChannel, debouncer,
                   activation, previewTimeout, webview, render>>

(***************************************************************************)
(* Two open documents that are edited and saved                            *)
(***************************************************************************)
EditedA == "/ws/src/a.html"
EditedB == "/ws/src/b.html"
EditedDocuments == {EditedA, EditedB}

EditTexts ==
    { <<>>,
      << <<Include("file", "missing.html")>> >>,
      << <<Include("virtual", "missing.html")>> >> }

EditAnyDocument ==
    \E document \in EditedDocuments, text \in EditTexts : EditDocument(document, text)

InitDebounce ==
    /\ workspaceFolders = <<"/ws">>
    /\ sourceDirectory \in {"src", NotAString}
    /\ fs = [d \in EditedDocuments |-> <<>>]
    /\ textDocuments = EditedDocuments
    /\ diagnostics = <<>>
    /\ trace = <<>>
    /\ definition = NoDefinition
    /\ Activated
    /\ unreadable = {}

NextDebounce ==
    \/ EditAnyDocument
    \/ \E document \in EditedDocuments : AnalysingHandler(document)
    \/ PreviewTimeout
    \/ dispose

SpecDebounce == InitDebounce /\ [][NextDebounce]_vars

(***************************************************************************)
(* C30: a failed analysis                                                  *)
(***************************************************************************)
\* C30: a handler whose call of updateDiagnostics ended in the catch block
\* leaves the findings published for every document as they were, and the
\* failure is the line it logged
C30_FailedAnalysisFrame ==
    [][ handled'.outcome = "caught" =>
          /\ diagnostics' = diagnostics
          /\ outputChannel' = failedLine ]_vars

C30_Witness ==
    /\ handled.outcome = "caught"
    /\ handled.document \in DOMAIN diagnostics
    /\ diagnostics[handled.document] # <<>>
    /\ outputChannel = failedLine

(***************************************************************************)
(* C29: the timers of the diagnostics debouncer                            *)
(***************************************************************************)
\* the documents that have a pending timer
Scheduled == {t.document : t \in timers}

OneTimerPerUri ==
    /\ \A t1, t2 \in timers : t1.document = t2.document => t1 = t2
    /\ DOMAIN updateTimeout = Scheduled
    /\ \A t \in timers : updateTimeout[t.document] = t.id

Disposed ==
    handled.event = "dispose" =>
        /\ updateTimeout = <<>>
        /\ timers = {}
        /\ diagnostics = <<>>

\* C29: every document has at most one pending timer and the map holds
\* exactly the documents that have one; a change event leaves the timers of
\* the other documents alone and the document with one timer, a fired timer
\* takes its document out of the map, and after dispose() the map, the
\* timers and the published findings are empty
C29_Debouncer ==
    /\ [](OneTimerPerUri /\ Disposed)
    /\ [][ /\ handled'.event = "change" =>
                /\ \A t \in timers : t.document # handled'.document => t \in timers'
                /\ \A t \in timers' : t.document # handled'.document => t \in timers
                /\ handled'.document \in DOMAIN updateTimeout'
           /\ handled'.event = "timer" =>
                /\ handled'.document \notin DOMAIN updateTimeout'
                /\ \A t \in timers : t.document # handled'.document => t \in timers' ]_vars

\* a change of a document that has a pending timer while the other document
\* has one too
C29_Witness ==
    /\ handled.event = "change"
    /\ Cardinality(timers) = 2
    /\ \E d \in DOMAIN diagnostics : diagnostics[d] # <<>>

(***************************************************************************)
(* C22: change events and analyses                                         *)
(***************************************************************************)
\* C22: a change event starts no analysis (nothing is published or logged
\* while it is handled); the analysis of a burst is the one the timer of its
\* last event starts
C22_OneAnalysisPerBurst ==
    [][ /\ handled'.event = "change" =>
              /\ diagnostics' = diagnostics
              /\ outputChannel' = outputChannel
              /\ handled'.analyses = 0
        /\ handled'.event = "timer" => handled'.analyses = 1 ]_vars

(***************************************************************************)
(* Two open documents with preview panels                                  *)
(***************************************************************************)
PreviewTexts ==
    { <<>>,
      << <<Include("file", "missing.html")>>,
         <<Template("missing.html", ""), EndTemplate>> >> }

InitPreview ==
    /\ workspaceFolders = <<"/ws">>
    /\ sourceDirectory = "src"
    /\ fs = [d \in EditedDocuments |-> <<>>]
    /\ textDocuments = EditedDocuments
    /\ diagnostics = <<>>
    /\ trace = <<>>
    /\ definition = NoDefinition
    /\ Activated
    /\ unreadable = {}

NextPreview ==
    \/ \E document \in EditedDocuments, text \in PreviewTexts : EditDocument(document, text)
    \/ \E document \in EditedDocuments : AnalysingHandler(document)
    \/ OnDidSaveRefresh
    \/ PreviewTimeout
    \/ \E document \in EditedDocuments : openPreview(document)

SpecPreview == InitPreview /\ [][NextPreview]_vars

(***************************************************************************)
(* C23: what is published for a document                                   *)
(***************************************************************************)
\* the findings of an analysis of the document as it is
Report(d) == analyzeDocument(d, fs[d]).diagnostics

\* the handler that has just run completed an analysis of d
Analysed(d) == handled.document = d /\ handled.outcome = "published"

\* C23: after a handler has completed an analysis of a document the findings
\* published for it are the whole report of that analysis, and the findings
\* published for a document are set by a handler that completed an analysis
\* of it and by nothing else
C23_OnlyLastReport ==
    /\ [](\A d \in DOMAIN fs :
             Analysed(d) => d \in DOMAIN diagnostics /\ diagnostics[d] = Report(d))
    /\ [][ \A d \in DOMAIN diagnostics' :
             (d \notin DOMAIN diagnostics \/ diagnostics'[d] # diagnostics[d])
                => Analysed(d)' ]_vars

(***************************************************************************)
(* C25: the panels after the preview's timer                               *)
(***************************************************************************)
\* no change event is being dispatched and the preview has no pending timer
PreviewSettled == handled.event # "edit" /\ previewTimeout = Undefined

\* C25: once the events have stopped and the delay has elapsed, every panel
\* shows the rendering of the present text of its document
C25_PanelsUpToDate ==
    PreviewSettled =>
        \A d \in panels : d \in DOMAIN webview /\ webview[d].source = fs[d]

(***************************************************************************)
(* Activation (extension.ts)                                               *)
(***************************************************************************)
\* s has sub as a substring
Includes(s, sub) ==
    \E i \in 1..(Len(s) - Len(sub) + 1) : SubSeq(s, i, i + Len(sub) - 1) = sub

\* checkUnifyWorkspace() for the given workspace folders: a file under one of
\* them matches unify.config.*, src/**/*.html, .components/**/*.html or
\* .layouts/**/*.html
checkUnifyWorkspace(folders) ==
    /\ folders # <<>>
    /\ \E p \in DOMAIN fs, i \in 1..Len(folders) :
          /\ StartsWith(p, folders[i] \o "/")
          /\ \/ Includes(p, "/unify.config.")
             \/ /\ EndsWith(p, ".html")
                /\ \/ Includes(p, "/src/")
                   \/ Includes(p, "/.components/")
                   \/ Includes(p, "/.layouts/")

\* the checks followed at one time
MaxPending == 3

\* onDidChangeWorkspaceFolders: a check of the new workspace is started
OnDidChangeWorkspaceFolders(folders) ==
    /\ folders # workspaceFolders
    /\ Len(pending) < MaxPending
    /\ workspaceFolders' = folders
    /\ pending' = Append(pending, [kind |-> "folders",
                                   isActive |-> checkUnifyWorkspace(folders)])
    /\ handled' = Handled("folders", Undefined, 0)
    /\ UNCHANGED <<sourceDirectory, unreadable, textDocuments, fs, analysis, providers,
                   outputChannel, debouncer, isActive, previewProvider, features,
                   preview>>

\* the promise of a check is fulfilled: the callback of activate or of the
\* workspace watcher runs
CheckCompleted(i) ==
    /\ i \in 1..Len(pending)
    /\ isActive' = pending[i].isActive
    /\ pending' = SubSeq(pending, 1, i - 1) \o SubSeq(pending, i + 1, Len(pending))
    /\ IF pending[i].isActive /\ (pending[i].kind = "activate" \/ previewProvider = 0)
       THEN initializeUnifyFeatures
       ELSE UNCHANGED <<features, previewProvider, outputChannel>>
    /\ handled' = Handled("check", Undefined, 0)
    /\ UNCHANGED <<workspace, fs, analysis, providers, debouncer, preview>>

\* unify.refreshPreview: every visible panel of an open document is updated
refreshPreview ==
    /\ Idle
    /\ previewProvider # 0
    /\ shownPanels # {}
    /\ refreshAllPanels({})
    /\ handled' = Handled("refreshPreview", Undefined, 0)
    /\ UNCHANGED <<workspace, fs, trace, definition, providers, debouncer, activation,
                   panels, previewTimeout, render>>

WorkspaceFolderLists == { <<>>, <<"/ws">>, <<"/other">>, <<"/other", "/ws">> }

\* the state in which activate() returns: the first check is under way
InitActivation ==
    /\ workspaceFolders \in WorkspaceFolderLists
    /\ sourceDirectory = "src"
    /\ fs = [d \in EditedDocuments |-> <<>>]
    /\ textDocuments = EditedDocuments
    /\ unreadable = {}
    /\ diagnostics = <<>>
    /\ trace = <<>>
    /\ definition = NoDefinition
    /\ hover = NoRequest
    /\ completion = NoRequest
    /\ outputChannel = "Unify extension activated"
    /\ updateTimeout = <<>>
    /\ timers = {}
    /\ handled = NoEvent
    /\ isActive = FALSE
    /\ previewProvider = 0
    /\ features = 0
    /\ pending = << [kind |-> "activate", isActive |-> checkUnifyWorkspace(workspaceFolders)] >>
    /\ panels = {}
    /\ previewTimeout = Undefined
    /\ webview = <<>>
    /\ render = NoRender

NextActivation ==
    \/ \E folders \in WorkspaceFolderLists : OnDidChangeWorkspaceFolders(folders)
    \/ \E i \in 1..Len(pending) : CheckCompleted(i)
    \/ \E document \in EditedDocuments : openPreview(document)
    \/ \E document \in EditedDocuments : OnDidDispose(document)
    \/ refreshPreview

SpecActivation == InitActivation /\ [][NextActivation]_vars

(***************************************************************************)
(* C26: initializeUnifyFeatures                                            *)
(***************************************************************************)
\* C26: initializeUnifyFeatures has run at most once, whatever the order in
\* which the checks of the workspace complete and the commands are invoked
C26_InitializedOnce == features <= 1

====
